---- MODULE Spec2Model ----
(***************************************************************************)
(* Model of the edgeai_empirical-study scripts.                            *)
(*                                                                         *)
(*  Spec / LiveSpec : the GitHub miner (data_collection/api_search.py),    *)
(*                    one call of search_github_repos, count_total_commits,*)
(*                    count_commits_2024 or get_collaborators_count        *)
(*                    against a server that may answer anything.           *)
(*  FilterSpec      : filter_english_descriptions (data_treatment.py).     *)
(*  DedupSpec       : remove_duplicates (data_treatment.py).               *)
(*  ExclSpec        : filter_repos_by_exclusion_terms (data_treatment.py). *)
(*  TokenSpec       : normalize_domain_token (handle_domain.py).           *)
(*  DomainSpec      : main of handle_domain.py, run once or twice.         *)
(*  ArchSpec        : handle_app_type.py.                                  *)
(*  MainSpec        : main of the miner over its list of search terms.     *)
(***************************************************************************)
EXTENDS Integers, Sequences, FiniteSets, TLC

VARIABLES
    \* ---- miner (api_search.py) ----
    fn,                 \* the function being executed
    pc,                 \* "loop" (at the head of its request loop) or "done"
    per_page,           \* PER_PAGE of the environment
    max_resp,           \* MAX_RESP of the environment
    page,               \* local variable page
    all_repositories,   \* search_github_repos: ids of the repositories kept
    seen_repos,         \* search_github_repos: set of ids seen
    total_commits,      \* count_*: the running total
    outcome,            \* how the call ended: "running", "value", "none", "raised"
    retList,            \* the list returned by search_github_repos
    retInt,             \* the int returned by the count functions
    lastStatus,         \* status of the latest response (EXC: RequestException)
    reqPage,            \* page number of the latest request (0: none yet)
    reqParity,          \* number of requests issued so far, modulo 2
    reissued,           \* the latest request repeated the request before it
    slept,              \* seconds slept since the latest request
    lastGap,            \* seconds slept between the latest request and the one before
    errorSeen,          \* some request of the call failed
    stream,             \* the items of the pages received, concatenated
    overflow,           \* stream stopped recording (more than MaxStream items)
    repoCommits,        \* number of commits the repository really has
    honest,             \* every response so far was the true page of the listing
    \* ---- filter_english_descriptions (data_treatment.py) ----
    fcols, frows, fdirs, fidx, english_rows, fpc, fwarned, fout,
    \* ---- remove_duplicates (data_treatment.py) ----
    dcols, drows, dkind, dpc, dout, dpass, dfirst,
    \* ---- one record of locals per script modelled below ----
    excl,               \* filter_repos_by_exclusion_terms (data_treatment.py)
    tok,                \* normalize_domain_token (handle_domain.py)
    dom,                \* main of handle_domain.py
    arch,               \* handle_app_type.py
    mn                  \* main of api_search.py

minerVars  == <<fn, pc, per_page, max_resp, page, all_repositories, seen_repos,
                total_commits, outcome, retList, retInt, lastStatus, reqPage,
                reqParity, reissued, slept, lastGap, errorSeen, stream, overflow,
                repoCommits, honest>>
filterVars == <<fcols, frows, fdirs, fidx, english_rows, fpc, fwarned, fout>>
dedupVars  == <<dcols, drows, dkind, dpc, dout, dpass, dfirst>>
laterVars  == <<excl, tok, dom, arch, mn>>
vars       == <<minerVars, filterVars, dedupVars, laterVars>>

\* a script that is not run
NotRun   == [pc |-> "idle"]
ExclIdle == excl = NotRun
TokIdle  == tok = NotRun
DomIdle  == dom = NotRun
ArchIdle == arch = NotRun
MainIdle == mn = NotRun

----------------------------------------------------------------------------
(* Bounds of the model *)
MaxPerPage == 2      \* PER_PAGE ranges over 1..MaxPerPage
MaxResp    == 3      \* MAX_RESP ranges over 0..MaxResp
MaxRepoId  == 3      \* repository ids are 1..MaxRepoId
MaxStream  == 6      \* items recorded in stream
MaxCommits == 160    \* a repository has 0..MaxCommits commits
MaxCollab  == 2      \* contributors returned by one request
MaxRows    == 3      \* rows of an input table

(* Program constants *)
NUM_COMMITS   == 50
COMMITS_PER_PAGE == 100
SEARCH_SLEEP  == 3

(* page and total_commits are unbounded Python ints; every value >= the cap is
   represented by the cap, so that a loop that never ends is a cycle. *)
MaxPage  == (MaxCommits \div COMMITS_PER_PAGE) + 3
TotalCap == MaxCommits + 2 * COMMITS_PER_PAGE

Min(a, b) == IF a < b THEN a ELSE b
Max(a, b) == IF a > b THEN a ELSE b

EXC      == 0     \* requests.RequestException instead of a response
Statuses == {EXC, 200, 403, 404, 429, 500, 503}
RetryStatuses == {403, 429, 500, 503}

Functions == {"search", "total", "c2024", "collab"}
RepoIds   == 1..MaxRepoId

Take(s, n) == SubSeq(s, 1, Min(Max(n, 0), Len(s)))

SeqsUpTo(S, n) == UNION {[1..k -> S] : k \in 0..n}

Range(s) == {s[i] : i \in 1..Len(s)}

----------------------------------------------------------------------------
(* search_github_repos *)

\* for repo in repositories: if repo_id not in seen_repos: add, append
\* (the state is the pair of all_repositories and seen_repos)
RECURSIVE AppendUniqueDup(_, _)
AppendUniqueDup(st, items) ==
    IF items = <<>> THEN st
    ELSE AppendUniqueDup([all  |-> Append(st.all, Head(items)),
                          seen |-> st.seen \cup {Head(items)}],
                         Tail(items))

RECURSIVE AppendUnique(_, _)
AppendUnique(st, items) ==
    IF items = <<>> THEN st
    ELSE AppendUnique(IF Head(items) \notin st.seen
                      THEN [all  |-> Append(st.all, Head(items)),
                            seen |-> st.seen \cup {Head(items)}]
                      ELSE st,
                      Tail(items))

\* limited_results = all_repositories[:MAX_RESP]
LimitedResults(all, mr) == Take(all, mr)

\* the three breaks of the loop body: request error, empty page, short page
SearchBreaksRetry(status, items, pp) ==
    status = 200 /\ (items = <<>> \/ Len(items) < pp)

SearchBreaks(status, items, pp) ==
    status # 200 \/ items = <<>> \/ Len(items) < pp

\* time.sleep(3) at the end of an iteration that goes on (goes = TRUE)
SearchSleepOnBreak(goes) == IF goes THEN 0 ELSE SEARCH_SLEEP

SearchSleep(goes) == IF goes THEN SEARCH_SLEEP ELSE 0

Record(items) ==
    IF overflow \/ Len(stream) + Len(items) > MaxStream
    THEN /\ overflow' = TRUE
         /\ stream' = stream
    ELSE /\ overflow' = FALSE
         /\ stream' = stream \o items

\* what every request does to the observation variables
Request(status) ==
    /\ lastStatus' = status
    /\ reqPage' = page
    /\ reqParity' = 1 - reqParity
    /\ reissued' = (reqPage # 0 /\ reqPage = page /\ page < MaxPage)
    /\ lastGap' = IF reqPage = 0 THEN -1 ELSE slept
    /\ errorSeen' = (errorSeen \/ status # 200)

\* one iteration of `while len(all_repositories) < MAX_RESP`
SearchPage ==
    /\ fn = "search" /\ pc = "loop"
    /\ Len(all_repositories) < max_resp
    /\ \E status \in Statuses, items \in SeqsUpTo(RepoIds, per_page) :
         LET got  == IF status = 200 THEN items ELSE <<>>
             st2  == AppendUnique([all |-> all_repositories, seen |-> seen_repos], got)
             all2 == st2.all
             brk  == SearchBreaks(status, got, per_page)
         IN  /\ Request(status)
             /\ Record(got)
             /\ all_repositories' = all2
             /\ seen_repos' = st2.seen
             /\ IF brk
                THEN /\ pc' = "done"
                     /\ outcome' = "value"
                     /\ retList' = LimitedResults(all2, max_resp)
                     /\ page' = page
                     /\ slept' = SearchSleep(FALSE)
                ELSE /\ pc' = "loop"
                     /\ outcome' = outcome
                     /\ retList' = retList
                     /\ page' = IF status = 200 THEN Min(page + 1, MaxPage) ELSE page
                     /\ slept' = SearchSleep(status = 200)
    /\ UNCHANGED <<fn, per_page, max_resp, total_commits, retInt, repoCommits, honest>>
    /\ UNCHANGED <<filterVars, dedupVars, laterVars>>

\* the loop condition fails: the function returns
SearchReturn ==
    /\ fn = "search" /\ pc = "loop"
    /\ ~ (Len(all_repositories) < max_resp)
    /\ pc' = "done"
    /\ outcome' = "value"
    /\ retList' = LimitedResults(all_repositories, max_resp)
    /\ UNCHANGED <<fn, per_page, max_resp, page, all_repositories, seen_repos,
                   total_commits, retInt, lastStatus, reqPage, reqParity, reissued, slept,
                   lastGap, errorSeen, stream, overflow, repoCommits, honest>>
    /\ UNCHANGED <<filterVars, dedupVars, laterVars>>

----------------------------------------------------------------------------
(* count_total_commits / count_commits_2024: the same loop, different query *)

\* the commits a server holding n commits lists on page p, 100 per page
PageLen(n, p) == Min(COMMITS_PER_PAGE, Max(0, n - COMMITS_PER_PAGE * (p - 1)))

\* lengths a response may have: the true page, or anything of these
CommitLens(n, p) == {0, NUM_COMMITS - 1, NUM_COMMITS, COMMITS_PER_PAGE, PageLen(n, p)}

\* total_commits += len(commits)
AddCommitsAssign(total, n) == Min(n, TotalCap)

AddCommits(total, n) == Min(total + n, TotalCap)

\* else: ... break  /  if len(commits) < NUM_COMMITS: break
CommitsBreaksRetry(status, n) == status = 200 /\ n < NUM_COMMITS

CommitsBreaks(status, n) == status # 200 \/ n < NUM_COMMITS

\* one iteration of `while True` with the response (status, n commits)
CommitsIteration(status, n) ==
    LET got    == IF status = 200 THEN n ELSE 0
        total2 == IF status = 200 THEN AddCommits(total_commits, got)
                  ELSE total_commits
        brk    == CommitsBreaks(status, got)
    IN  /\ Request(status)
        /\ honest' = (honest /\ status = 200 /\ page < MaxPage
                             /\ n = PageLen(repoCommits, page))
        /\ total_commits' = total2
        /\ slept' = 0
        /\ IF brk
           THEN /\ pc' = "done"
                /\ outcome' = "value"
                /\ retInt' = total2
                /\ page' = page
           ELSE /\ pc' = "loop"
                /\ outcome' = outcome
                /\ retInt' = retInt
                /\ page' = IF status = 200 THEN Min(page + 1, MaxPage) ELSE page

CountTotalCommitsPage ==
    /\ fn = "total" /\ pc = "loop"
    /\ \E status \in Statuses, n \in CommitLens(repoCommits, page) :
         CommitsIteration(status, n)
    /\ UNCHANGED <<fn, per_page, max_resp, all_repositories, seen_repos, retList,
                   stream, overflow, repoCommits>>
    /\ UNCHANGED <<filterVars, dedupVars, laterVars>>

CountCommits2024Page ==
    /\ fn = "c2024" /\ pc = "loop"
    /\ \E status \in Statuses, n \in CommitLens(repoCommits, page) :
         CommitsIteration(status, n)
    /\ UNCHANGED <<fn, per_page, max_resp, all_repositories, seen_repos, retList,
                   stream, overflow, repoCommits>>
    /\ UNCHANGED <<filterVars, dedupVars, laterVars>>

----------------------------------------------------------------------------
(* get_collaborators_count: one request *)

\* return collaborators  /  return 0
CollabResult(status, n) == IF status = 200 THEN n ELSE 0

GetCollaboratorsCount ==
    /\ fn = "collab" /\ pc = "loop"
    /\ \E status \in Statuses, n \in 0..MaxCollab :
         /\ Request(status)
         /\ slept' = 0
         /\ pc' = "done"
         /\ outcome' = "value"
         /\ retInt' = CollabResult(status, n)
    /\ UNCHANGED <<fn, per_page, max_resp, page, all_repositories, seen_repos,
                   total_commits, retList, stream, overflow, repoCommits, honest>>
    /\ UNCHANGED <<filterVars, dedupVars, laterVars>>

----------------------------------------------------------------------------
MinerInit ==
    /\ fn \in Functions
    /\ pc = "loop"
    /\ per_page \in (IF fn = "search" THEN 1..MaxPerPage ELSE {1})
    /\ max_resp \in (IF fn = "search" THEN 0..MaxResp ELSE {1})
    /\ page = 1
    /\ all_repositories = <<>>
    /\ seen_repos = {}
    /\ total_commits = 0
    /\ outcome = "running"
    /\ retList = <<>>
    /\ retInt = 0
    /\ lastStatus = 200
    /\ reqPage = 0
    /\ reqParity = 0
    /\ reissued = FALSE
    /\ slept = 0
    /\ lastGap = -1
    /\ errorSeen = FALSE
    /\ stream = <<>>
    /\ overflow = FALSE
    /\ repoCommits \in (IF fn \in {"total", "c2024"} THEN 0..MaxCommits ELSE {0})
    /\ honest = TRUE


----------------------------------------------------------------------------
(* data_treatment.py: the tables are DataFrames as pd.read_csv returns them.
   A cell is <<>> (NaN) or <<text>>; read_csv never yields an empty text. *)

NaN == <<>>
Cell(t) == <<t>>
IsNa(c) == c = NaN

\* where output_file points: a bare file name (os.path.dirname is ""), a file
\* in a directory that exists, a file in a directory that does not exist
PathKinds == {"bare", "dir_exists", "dir_missing"}

\* os.makedirs(os.path.dirname(output_file), exist_ok=True): raises
\* FileNotFoundError for "", creates the directory otherwise
MakedirsRaises(kind) == kind = "bare"

\* DataFrame.to_csv(output_file): raises OSError when the parent directory
\* does not exist
ToCsvRaises(kind, made) == kind = "dir_missing" /\ ~made

NoFile == [written |-> FALSE, cols |-> {}, rows |-> <<>>]
File(cols, rows) == [written |-> TRUE, cols |-> cols, rows |-> rows]

----------------------------------------------------------------------------
(* filter_english_descriptions *)

\* descriptions: " " is whitespace, "e" an English word, "x" a word of another
\* language, "7" a character that gives langdetect no feature
Texts == { <<" ">>, <<" ", " ">>, <<"e">>, <<" ", "e", " ">>, <<"x">>,
           <<"7">>, <<" ", "7">> }
Cells == {NaN} \cup {Cell(t) : t \in Texts}

\* str.strip()
RECURSIVE LStrip(_)
LStrip(s) == IF s # <<>> /\ Head(s) = " " THEN LStrip(Tail(s)) ELSE s

RECURSIVE RStrip(_)
RStrip(s) == IF s # <<>> /\ s[Len(s)] = " " THEN RStrip(SubSeq(s, 1, Len(s) - 1)) ELSE s

Strip(s) == RStrip(LStrip(s))

\* langdetect.detect: raises LangDetectException on a text without features
Detect(s) ==
    IF \A i \in 1..Len(s) : s[i] \in {" ", "7"} THEN "LangDetectException"
    ELSE IF \E i \in 1..Len(s) : s[i] = "x" THEN "pt"
    ELSE "en"

\* description = "" if pd.isna(row["desc."]) else str(row["desc."])
Description(cell) == IF IsNa(cell) THEN <<>> ELSE cell[1]

\* the body of the row loop: TRUE when the row is appended to english_rows
KeepsRowAnyLang(cell) ==
    LET d == Description(cell)
    IN  Strip(d) # <<>> /\ Detect(d) # "LangDetectException"

KeepsRow(cell) ==
    LET d == Description(cell)
    IN  IF Strip(d) = <<>> THEN FALSE
        ELSE IF Detect(d) = "LangDetectException" THEN FALSE
        ELSE Detect(d) = "en"

\* pd.DataFrame(english_rows): no rows, no columns
FrameCols(rows, cols) == IF rows = <<>> THEN {} ELSE cols

TablesWithDesc ==
    UNION { { [i \in 1..k |-> [name |-> i, desc |-> f[i]]] : f \in [1..k -> Cells] }
            : k \in 0..MaxRows }

TablesWithoutDesc == { [i \in 1..k |-> [name |-> i]] : k \in 0..MaxRows }

FilterInit ==
    /\ fcols \in {{"name"}, {"name", "desc."}}
    /\ frows \in (IF "desc." \in fcols THEN TablesWithDesc ELSE TablesWithoutDesc)
    /\ fdirs \in PathKinds
    /\ fidx = 1
    /\ english_rows = <<>>
    /\ fpc = "start"
    /\ fwarned = FALSE
    /\ fout = NoFile

\* if "desc." not in df.columns: warn, write the empty table, return
FilterMissingColumn ==
    /\ fpc = "start"
    /\ "desc." \notin fcols
    /\ fwarned' = TRUE
    /\ IF ToCsvRaises(fdirs, FALSE)
       THEN fpc' = "raised" /\ fout' = fout
       ELSE fpc' = "done" /\ fout' = File(fcols, <<>>)
    /\ UNCHANGED <<fcols, frows, fdirs, fidx, english_rows>>
    /\ UNCHANGED <<minerVars, dedupVars, laterVars>>

FilterBegin ==
    /\ fpc = "start"
    /\ "desc." \in fcols
    /\ fpc' = "rows"
    /\ english_rows' = <<>>
    /\ UNCHANGED <<fcols, frows, fdirs, fidx, fwarned, fout>>
    /\ UNCHANGED <<minerVars, dedupVars, laterVars>>

\* one iteration of `for _, row in df.iterrows()`
FilterRow ==
    /\ fpc = "rows"
    /\ fidx <= Len(frows)
    /\ english_rows' = IF KeepsRow(frows[fidx].desc)
                       THEN Append(english_rows, frows[fidx])
                       ELSE english_rows
    /\ fidx' = fidx + 1
    /\ UNCHANGED <<fcols, frows, fdirs, fpc, fwarned, fout>>
    /\ UNCHANGED <<minerVars, dedupVars, laterVars>>

\* df_english = pd.DataFrame(english_rows); makedirs; to_csv
FilterWrite ==
    /\ fpc = "rows"
    /\ fidx > Len(frows)
    /\ IF MakedirsRaises(fdirs)
       THEN fpc' = "raised" /\ fout' = fout
       ELSE IF ToCsvRaises(fdirs, TRUE)
       THEN fpc' = "raised" /\ fout' = fout
       ELSE fpc' = "done" /\ fout' = File(FrameCols(english_rows, fcols), english_rows)
    /\ UNCHANGED <<fcols, frows, fdirs, fidx, english_rows, fwarned>>
    /\ UNCHANGED <<minerVars, dedupVars, laterVars>>

----------------------------------------------------------------------------
(* remove_duplicates *)

KeyCols == {"name", "full_name", "URL"}
AllCols == KeyCols \cup {"stars"}
Values  == {NaN, Cell("a")}

\* existing_subset, and the fall back to all columns when it is empty
ExistingSubset(cols) == cols \cap KeyCols
DedupSubset(cols) == IF ExistingSubset(cols) = {} THEN cols ELSE ExistingSubset(cols)

Key(row, subset) == [c \in subset |-> row[c]]

\* DataFrame.drop_duplicates(subset=..., keep="first"): a row is dropped when
\* an earlier row has its key (NaN equals NaN)
DropDuplicatesLast(rows, subset) ==
    LET keep(i) == \A j \in (i + 1)..Len(rows) : Key(rows[j], subset) # Key(rows[i], subset)
        F[i \in 0..Len(rows)] ==
            IF i = 0 THEN <<>>
            ELSE IF keep(i) THEN Append(F[i - 1], rows[i]) ELSE F[i - 1]
    IN  F[Len(rows)]

DropDuplicates(rows, subset) ==
    LET F[i \in 0..Len(rows)] ==
            IF i = 0 THEN [out |-> <<>>, seen |-> {}]
            ELSE LET k == Key(rows[i], subset)
                 IN  IF k \in F[i - 1].seen THEN F[i - 1]
                     ELSE [out  |-> Append(F[i - 1].out, rows[i]),
                           seen |-> F[i - 1].seen \cup {k}]
    IN  F[Len(rows)].out

\* to_csv writes NaN as the empty field; read_csv reads the empty field as NaN
ToCsvCell(c) == IF IsNa(c) THEN "" ELSE c[1]
ReadCsvCell(t) == IF t = "" THEN NaN ELSE Cell(t)
ToCsv(rows) == [i \in 1..Len(rows) |-> [c \in DOMAIN rows[i] |-> ToCsvCell(rows[i][c])]]
ReadCsv(lines) == [i \in 1..Len(lines) |-> [c \in DOMAIN lines[i] |-> ReadCsvCell(lines[i][c])]]

DedupInit ==
    /\ dcols \in {cs \cup {"stars"} : cs \in SUBSET KeyCols}
    /\ drows \in SeqsUpTo([dcols -> Values], MaxRows)
    /\ dkind \in PathKinds
    /\ dpc = "start"
    /\ dout = NoFile
    /\ dpass = 0
    /\ dfirst = NoFile

\* remove_duplicates(input_file, output_file)
RemoveDuplicates ==
    /\ dpc = "start"
    /\ LET df_unique == DropDuplicates(drows, DedupSubset(dcols))
       IN  IF MakedirsRaises(dkind)
           THEN dpc' = "raised" /\ dout' = dout /\ dfirst' = dfirst /\ dpass' = dpass
           ELSE IF ToCsvRaises(dkind, TRUE)
           THEN dpc' = "raised" /\ dout' = dout /\ dfirst' = dfirst /\ dpass' = dpass
           ELSE /\ dpc' = "done"
                /\ dout' = File(dcols, ToCsv(df_unique))
                /\ dfirst' = File(dcols, ToCsv(df_unique))
                /\ dpass' = 1
    /\ UNCHANGED <<dcols, drows, dkind>>
    /\ UNCHANGED <<minerVars, filterVars, laterVars>>

\* remove_duplicates(output_file, output_file): the function on its own output
RemoveDuplicatesAgain ==
    /\ dpc = "done"
    /\ dpass = 1
    /\ LET df        == ReadCsv(dout.rows)
           df_unique == DropDuplicates(df, DedupSubset(dout.cols))
       IN  dout' = File(dout.cols, ToCsv(df_unique))
    /\ dpass' = 2
    /\ UNCHANGED <<dcols, drows, dkind, dpc, dfirst>>
    /\ UNCHANGED <<minerVars, filterVars, laterVars>>

----------------------------------------------------------------------------
(* Specifications: each runs one script and leaves the others idle *)

MinerIdle ==
    /\ fn = "search" /\ pc = "done" /\ per_page = 1 /\ max_resp = 0 /\ page = 1
    /\ all_repositories = <<>> /\ seen_repos = {} /\ total_commits = 0
    /\ outcome = "value" /\ retList = <<>> /\ retInt = 0 /\ lastStatus = 200
    /\ reqPage = 0 /\ reqParity = 0 /\ reissued = FALSE /\ slept = 0 /\ lastGap = -1
    /\ errorSeen = FALSE /\ stream = <<>> /\ overflow = FALSE
    /\ repoCommits = 0 /\ honest = TRUE

FilterIdle ==
    /\ fcols = {"name"} /\ frows = <<>> /\ fdirs = "dir_exists" /\ fidx = 1
    /\ english_rows = <<>> /\ fpc = "idle" /\ fwarned = FALSE /\ fout = NoFile

DedupIdle ==
    /\ dcols = {"stars"} /\ drows = <<>> /\ dkind = "dir_exists" /\ dpc = "idle"
    /\ dout = NoFile /\ dpass = 0 /\ dfirst = NoFile

LaterIdle == ExclIdle /\ TokIdle /\ DomIdle /\ ArchIdle /\ MainIdle

Init == MinerInit /\ FilterIdle /\ DedupIdle /\ LaterIdle

Next ==
    \/ SearchPage
    \/ SearchReturn
    \/ CountTotalCommitsPage
    \/ CountCommits2024Page
    \/ GetCollaboratorsCount

Spec == Init /\ [][Next]_vars

\* the interpreter runs the script: a step that can be taken is taken
LiveSpec == Init /\ [][Next]_vars /\ WF_vars(Next)

FInit == MinerIdle /\ FilterInit /\ DedupIdle /\ LaterIdle
FNext == FilterMissingColumn \/ FilterBegin \/ FilterRow \/ FilterWrite
FilterSpec == FInit /\ [][FNext]_vars

DInit == MinerIdle /\ FilterIdle /\ DedupInit /\ LaterIdle
DNext == RemoveDuplicates \/ RemoveDuplicatesAgain
DedupSpec == DInit /\ [][DNext]_vars

----------------------------------------------------------------------------
(* Properties of the miner *)

Requested == reqPage # 0
Failed    == Requested /\ lastStatus # 200
Paginated == {"search", "total", "c2024"}

C3_EveryCallReturns == <>(pc = "done")

\* the positions of stream that hold the first occurrence of their id
FirstOccurrences(s) ==
    LET F[i \in 0..Len(s)] ==
            IF i = 0 THEN <<>>
            ELSE IF \E j \in 1..(i - 1) : s[j] = s[i] THEN F[i - 1]
            ELSE Append(F[i - 1], s[i])
    IN  F[Len(s)]

\* C4: the list search_github_repos returns has at most MAX_RESP entries, no
\* repository id twice, and holds the ids in the order of their first
\* occurrence in the pages received.
C4_AtMostMaxRespUniqueInOrder ==
    (fn = "search" /\ pc = "done") =>
        /\ Len(retList) <= max_resp
        /\ \A i, j \in 1..Len(retList) : i # j => retList[i] # retList[j]
        /\ ~overflow => retList = Take(FirstOccurrences(stream), max_resp)

C4_Witness ==
    /\ fn = "search" /\ pc = "done" /\ ~overflow
    /\ Len(stream) > Len(all_repositories)
    /\ Len(all_repositories) > max_resp
    /\ Len(retList) = max_resp /\ max_resp > 0

\* C5 (as stated): search_github_repos returns None exactly when a request of
\* the search failed, and a list only when none failed.
C5_NoneOnError ==
    (fn = "search" /\ pc = "done") => (errorSeen <=> outcome = "none")

\* C6 (as stated): every request of page k+1 of a search or of a commit
\* listing comes after a sleep of the fixed length since the request of page k.
C6_SleepBetweenAllPages ==
    (fn \in Paginated /\ reqPage >= 2) => lastGap = SEARCH_SLEEP

\* C6 (amended): search_github_repos sleeps 3 seconds between the requests of
\* two consecutive pages; count_total_commits and count_commits_2024 request
\* page k+1 directly after page k, without any sleep.
C6_SleepBetweenSearchPagesOnly ==
    (fn \in Paginated /\ reqPage >= 2) =>
        lastGap = (IF fn = "search" THEN SEARCH_SLEEP ELSE 0)

C6_Witness ==
    /\ fn = "search" /\ reqPage = 3 /\ lastGap = SEARCH_SLEEP /\ lastStatus = 200

\* C7: when every request succeeds and the server lists the repository's N
\* commits 100 per page (empty pages after the last), count_total_commits and
\* count_commits_2024 return exactly N.
C7_CountsEveryCommit ==
    (fn \in {"total", "c2024"} /\ pc = "done" /\ honest) => retInt = repoCommits

C7_Witness ==
    /\ fn = "c2024" /\ pc = "done" /\ honest
    /\ repoCommits = COMMITS_PER_PAGE + NUM_COMMITS /\ reqPage = 3
    /\ retInt = repoCommits

----------------------------------------------------------------------------
(* Properties of filter_english_descriptions *)

FilterEnded == fpc \in {"done", "raised"}

\* C8 (as stated): on an input without the column 'desc.' the function logs a
\* warning, writes a CSV with the input's columns and no rows, and returns
\* without raising.
C8_MissingColumnWritesEmptyTable ==
    (FilterEnded /\ "desc." \notin fcols) =>
        /\ fwarned
        /\ fpc = "done"
        /\ fout = File(fcols, <<>>)

Blank(t) == \A i \in 1..Len(t) : t[i] = " "

IsEnglishRow(r) ==
    /\ ~IsNa(r.desc)
    /\ ~Blank(r.desc[1])
    /\ Detect(r.desc[1]) = "en"

\* C9: the file written holds exactly the input rows, in input order, whose
\* 'desc.' is present, not blank and detected as English; a row that is
\* skipped (missing, blank, LangDetectException) never ends the loop: every
\* row is visited before the function writes or fails.
C9_WritesEnglishRowsInOrder ==
    "desc." \in fcols =>
        /\ fpc = "rows" =>
             english_rows = SelectSeq(SubSeq(frows, 1, fidx - 1), IsEnglishRow)
        /\ FilterEnded => fidx = Len(frows) + 1
        /\ fpc = "done" =>
             /\ fout.written
             /\ fout.rows = SelectSeq(frows, IsEnglishRow)

C9_Witness ==
    /\ "desc." \in fcols /\ fpc = "done" /\ Len(frows) = 3
    /\ frows[1].desc = Cell(<<"7">>)
    /\ frows[2].desc = NaN
    /\ frows[3].desc = Cell(<<" ", "e", " ">>)
    /\ fout.rows = <<frows[3]>>

----------------------------------------------------------------------------
(* Properties of remove_duplicates *)

SameKey(r1, r2) == \A c \in KeyCols : r1[c] = r2[c]

\* the index of the first input row that agrees with r on the key columns
FirstIndex(r) == CHOOSE i \in 1..Len(drows) :
                    /\ SameKey(drows[i], r)
                    /\ \A j \in 1..(i - 1) : ~SameKey(drows[j], r)

\* C10: on a table that has the columns 'name', 'full_name' and 'URL', the
\* table written has no two rows that agree on the three; every output row is
\* an input row, namely the first input row with its key; every input row
\* agrees with exactly one output row; the input order is kept; and running
\* remove_duplicates on its own output writes the same table again.
C10_KeepsFirstOfEachKey ==
    (dpc = "done" /\ KeyCols \subseteq dcols) =>
        LET out == ReadCsv(dfirst.rows)
        IN  /\ dfirst.written
            /\ \A m, n \in 1..Len(out) : m # n => ~SameKey(out[m], out[n])
            /\ \A m \in 1..Len(out) :
                 /\ \E i \in 1..Len(drows) : drows[i] = out[m]
                 /\ out[m] = drows[FirstIndex(out[m])]
            /\ \A m, n \in 1..Len(out) :
                 m < n => FirstIndex(out[m]) < FirstIndex(out[n])
            /\ \A i \in 1..Len(drows) :
                 Cardinality({m \in 1..Len(out) : SameKey(out[m], drows[i])}) = 1
            /\ dpass = 2 => dout = dfirst

C10_Witness ==
    /\ dpc = "done" /\ dpass = 2 /\ KeyCols \subseteq dcols
    /\ Len(drows) = 3 /\ Len(dout.rows) = 2
    /\ SameKey(drows[1], drows[3])
    /\ drows[1]["stars"] # drows[3]["stars"]
    /\ IsNa(drows[1]["URL"])

----------------------------------------------------------------------------
(* Python strings are sequences of one-character strings *)

UpperCase == <<"A", "B", "C", "D", "E", "F", "G", "H", "I", "J", "K", "L", "M", "N", "O", "P", "Q", "R", "S", "T", "U", "V", "W", "X", "Y", "Z">>
LowerCase == <<"a", "b", "c", "d", "e", "f", "g", "h", "i", "j", "k", "l", "m", "n", "o", "p", "q", "r", "s", "t", "u", "v", "w", "x", "y", "z">>

\* str.lower() / str.casefold() on the characters the model uses
LowerChar(c) ==
    IF \E i \in 1..Len(UpperCase) : UpperCase[i] = c
    THEN LowerCase[CHOOSE i \in 1..Len(UpperCase) : UpperCase[i] = c]
    ELSE c

LowerStr(s) == [i \in 1..Len(s) |-> LowerChar(s[i])]

IsPrefix(t, s) == Len(t) <= Len(s) /\ SubSeq(s, 1, Len(t)) = t

\* `t in s`
RECURSIVE Contains(_, _)
Contains(s, t) ==
    IF IsPrefix(t, s) THEN TRUE
    ELSE IF s = <<>> THEN FALSE
    ELSE Contains(Tail(s), t)

\* str.split(sep) for a one-character separator: the list of the pieces
RECURSIVE SplitAcc(_, _, _)
SplitAcc(s, sep, cur) ==
    IF s = <<>> THEN <<cur>>
    ELSE IF Head(s) = sep THEN <<cur>> \o SplitAcc(Tail(s), sep, <<>>)
    ELSE SplitAcc(Tail(s), sep, Append(cur, Head(s)))

Split(s, sep) == SplitAcc(s, sep, <<>>)

\* sep.join(list)
RECURSIVE Join(_, _)
Join(list, sep) ==
    IF list = <<>> THEN <<>>
    ELSE IF Len(list) = 1 THEN list[1]
    ELSE list[1] \o sep \o Join(Tail(list), sep)

\* an optional value: None, or Some(v)
None == <<>>
Some(v) == <<v>>

----------------------------------------------------------------------------
(* filter_repos_by_exclusion_terms / save_filtered_repository *)

exclusion_terms ==
    { <<"c", "o", "u", "r", "s", "e", "s">>,
      <<"t", "o", "y">>,
      <<"t", "u", "t", "o", "r", "i", "a", "l">>,
      <<"c", "l", "a", "s", "s", "e", "s">>,
      <<"b", "o", "o", "k", "s">>,
      <<"b", "o", "o", "k">>,
      <<"g", "u", "i", "d", "e", "l", "i", "n", "e", "s">>,
      <<"t", "o", "o", "l", "s">>,
      <<"t", "o", "o", "l">>,
      <<"d", "e", "m", "o", "s">>,
      <<"d", "e", "m", "o">>,
      <<"s", "i", "m", "u", "l", "a", "t", "o", "r">>,
      <<"s", "i", "m", "u", "l", "a", "t", "o", "r", "s">>,
      <<"c", "l", "a", "s", "s">>,
      <<"c", "o", "u", "r", "s", "e">>,
      <<"t", "o", "y", "s">>,
      <<"c", "u", "t", "t", "i", "n", "g", "-", "e", "d", "g", "e">>,
      <<"l", "i", "b", "r", "a", "r", "y">>,
      <<"c", "u", "t", "t", "i", "n", "g", "e", "d", "g", "e">>,
      <<"c", "u", "t", "t", "i", "n", "g", "_", "e", "d", "g", "e">>,
      <<"c", "u", "t", "t", "i", "n", "g", " ", "e", "d", "g", "e">> }

MaxExclRows == 3     \* rows of the CSV given to filter_repos_by_exclusion_terms

\* rows of the input CSV as csv.DictReader yields them (None: field absent)
RepoPool ==
    { [name |-> Some(<<"E", "d", "g", "e", "C", "l", "a", "s", "s", "i", "f", "i", "e", "r">>), desc |-> None, search_term |-> Some(<<"t", "i", "n", "y", "m", "l">>)],
      [name |-> Some(<<"t", "i", "n", "y", "m", "l", "-", "b", "e", "n", "c", "h">>), desc |-> Some(<<"T", "i", "n", "y", "M", "L", " ", "b", "e", "n", "c", "h", "m", "a", "r", "k", "s">>), search_term |-> Some(<<"t", "i", "n", "y", "m", "l", ",", " ", "t", "i", "n", "y", " ", "m", "l">>)],
      [name |-> Some(<<"c", "u", "t", "t", "i", "n", "g">>), desc |-> Some(<<"e", "d", "g", "e", " ", "i", "n", "f", "e", "r", "e", "n", "c", "e">>), search_term |-> Some(<<"e", "d", "g", "e", " ", "a", "i">>)],
      [name |-> Some(<<"s", "e", "n", "s", "o", "r", "-", "h", "u", "b">>), desc |-> Some(<<>>), search_term |-> Some(<<>>)],
      [name |-> Some(<<"l", "i", "b", "r", "a">>), desc |-> Some(<<"r", "y">>), search_term |-> Some(<<>>)] }

\* load_repos_from_csv: search_term becomes the list of its stripped pieces
LoadRepo(row) ==
    LET raw_terms == IF row.search_term = None THEN <<>> ELSE row.search_term[1]
        pieces    == Split(raw_terms, ",")
    IN  [name        |-> row.name,
         desc        |-> row.desc,
         search_term |-> IF raw_terms = <<>> THEN <<>>
                         ELSE [i \in 1..Len(pieces) |-> Strip(pieces[i])]]

\* repo.get(key) or ""
OrEmpty(v) == IF v = None THEN <<>> ELSE v[1]

\* _concat_text
ConcatTextNoLower(repo) ==
    OrEmpty(repo.name) \o <<" ">> \o OrEmpty(repo.desc) \o <<" ">>
        \o Join(repo.search_term, <<" ">>)

ConcatText(repo) ==
    LowerStr(OrEmpty(repo.name) \o <<" ">> \o OrEmpty(repo.desc) \o <<" ">>
             \o Join(repo.search_term, <<" ">>))

\* any(term_ex in haystack for term_ex in exclusion_terms)
Excluded(repo) == \E term_ex \in exclusion_terms : Contains(ConcatText(repo), term_ex)

\* csv.DictWriter: None is written as the empty field, a list as its repr
WrittenRow(repo) ==
    [name        |-> OrEmpty(repo.name),
     desc        |-> OrEmpty(repo.desc),
     search_term |-> <<"repr", repo.search_term>>]

\* output_path given to the function: None, or a directory
OutputPaths == {"None", "out_dir", "new_dir"}

\* if output_path is None: output_path = ROOT/dataset/processed_data
OutputDir(output_path) ==
    IF output_path = "None" THEN "ROOT/dataset/processed_data" ELSE output_path

\* save_filtered_repository(repos, output_path, term): the value returned and
\* the files written
SaveFilteredRepositoryAlways(repos, output_path, term) ==
    LET file_path == [dir |-> output_path, term |-> term]
    IN  [ret   |-> Some(file_path),
         files |-> {[path |-> file_path,
                     rows |-> [i \in 1..Len(repos) |-> WrittenRow(repos[i])]]}]

SaveFilteredRepository(repos, output_path, term) ==
    IF repos = <<>>
    THEN [ret |-> None, files |-> {}]
    ELSE LET file_path == [dir |-> output_path, term |-> term]
         IN  [ret   |-> Some(file_path),
              files |-> {[path |-> file_path,
                          rows |-> [i \in 1..Len(repos) |-> WrittenRow(repos[i])]]}]

ExclInit ==
    /\ \E table \in SeqsUpTo(RepoPool, MaxExclRows), op \in OutputPaths :
         excl = [pc |-> "start", table |-> table, output_path |-> op,
                 dirs |-> {"out_dir", "ROOT/dataset/processed_data"},
                 repos |-> <<>>, idx |-> 1, filtered_repos |-> <<>>,
                 files |-> {}, saved |-> None, ret |-> None]

\* lines 190-212: default directory, makedirs, load the CSV
ExclLoad ==
    /\ excl.pc = "start"
    /\ excl' = [excl EXCEPT
                  !.pc = "rows",
                  !.dirs = @ \cup {OutputDir(excl.output_path)},
                  !.repos = [i \in 1..Len(excl.table) |-> LoadRepo(excl.table[i])]]
    /\ UNCHANGED <<minerVars, filterVars, dedupVars, tok, dom, arch, mn>>

\* one iteration of `for repo in repos`
ExclRow ==
    /\ excl.pc = "rows"
    /\ excl.idx <= Len(excl.repos)
    /\ excl' = [excl EXCEPT
                  !.idx = @ + 1,
                  !.filtered_repos = IF Excluded(excl.repos[excl.idx]) THEN @
                                     ELSE Append(@, excl.repos[excl.idx])]
    /\ UNCHANGED <<minerVars, filterVars, dedupVars, tok, dom, arch, mn>>

\* saved = save_filtered_repository(...); return saved
ExclSave ==
    /\ excl.pc = "rows"
    /\ excl.idx > Len(excl.repos)
    /\ LET r == SaveFilteredRepository(excl.filtered_repos,
                                       OutputDir(excl.output_path), "term")
       IN  excl' = [excl EXCEPT !.pc = "done", !.files = r.files,
                                !.saved = r.ret, !.ret = r.ret]
    /\ UNCHANGED <<minerVars, filterVars, dedupVars, tok, dom, arch, mn>>

XInit == MinerIdle /\ FilterIdle /\ DedupIdle /\ ExclInit
                   /\ TokIdle /\ DomIdle /\ ArchIdle /\ MainIdle
XNext == ExclLoad \/ ExclRow \/ ExclSave
ExclSpec == XInit /\ [][XNext]_vars

----------------------------------------------------------------------------
(* Properties of filter_repos_by_exclusion_terms *)

Occurs(t, s) == \E k \in 0..(Len(s) - Len(t)) : SubSeq(s, k + 1, k + Len(t)) = t

\* the text the exclusion terms are looked up in: name, 'desc.' and the search
\* terms, separated by blanks, lower-cased
Haystack(repo) ==
    LET txt == OrEmpty(repo.name) \o <<" ">> \o OrEmpty(repo.desc) \o <<" ">>
                   \o Join(repo.search_term, <<" ">>)
    IN  [i \in 1..Len(txt) |-> LowerChar(txt[i])]

NoTermOccurs(repo) == \A t \in exclusion_terms : ~Occurs(t, Haystack(repo))

\* C12: the repositories kept are exactly those in whose lower-cased text no
\* exclusion term occurs as a substring ('toolkit' falls to 'tool',
\* 'EdgeClassifier' to 'class'), in input order.
C12_KeepsReposWithoutExclusionTerm ==
    /\ excl.pc = "rows" =>
         excl.filtered_repos =
             SelectSeq(SubSeq(excl.repos, 1, excl.idx - 1), NoTermOccurs)
    /\ excl.pc = "done" =>
         /\ excl.filtered_repos = SelectSeq(excl.repos, NoTermOccurs)
         /\ \A i \in 1..Len(excl.repos) :
              excl.repos[i].name \in {Some(<<"t", "o", "o", "l", "k", "i", "t">>), Some(<<"E", "d", "g", "e", "C", "l", "a", "s", "s", "i", "f", "i", "e", "r">>)}
                  => \A j \in 1..Len(excl.filtered_repos) :
                         excl.filtered_repos[j] # excl.repos[i]

C12_Witness ==
    /\ excl.pc = "done" /\ Len(excl.repos) = 3
    /\ excl.repos[1].name = Some(<<"t", "i", "n", "y", "m", "l", "-", "b", "e", "n", "c", "h">>)
    /\ excl.repos[2].name = Some(<<"E", "d", "g", "e", "C", "l", "a", "s", "s", "i", "f", "i", "e", "r">>)
    /\ excl.repos[3].name = Some(<<"s", "e", "n", "s", "o", "r", "-", "h", "u", "b">>)
    /\ excl.filtered_repos = <<excl.repos[1], excl.repos[3]>>

----------------------------------------------------------------------------
(* handle_domain.py: label normalization.  An accented letter is one
   character written with a trailing ^ ("e^"); "\t" is the tab. *)

Whitespace == {" ", "\t"}
Letters    == Range(LowerCase) \cup Range(UpperCase)
Digits     == {"0", "1", "2", "3", "4", "5", "6", "7", "8", "9"}
Accented   == {"a^", "e^", "i^", "o^", "u^"}

\* str.strip(): all leading and trailing whitespace
RECURSIVE LStripWs(_)
LStripWs(s) == IF s # <<>> /\ Head(s) \in Whitespace THEN LStripWs(Tail(s)) ELSE s

RECURSIVE RStripWs(_)
RStripWs(s) ==
    IF s # <<>> /\ s[Len(s)] \in Whitespace THEN RStripWs(SubSeq(s, 1, Len(s) - 1)) ELSE s

StripWs(s) == RStripWs(LStripWs(s))

\* _strip_accents: NFKD, then drop the combining marks
StripAccentChar(c) ==
    IF c = "a^" THEN "a" ELSE IF c = "e^" THEN "e" ELSE IF c = "i^" THEN "i"
    ELSE IF c = "o^" THEN "o" ELSE IF c = "u^" THEN "u" ELSE c

StripAccents(s) == [i \in 1..Len(s) |-> StripAccentChar(s[i])]

\* re.sub(r"\s+", " ", t)
RECURSIVE CollapseWs(_)
CollapseWs(s) ==
    IF s = <<>> THEN <<>>
    ELSE IF Head(s) \in Whitespace
         THEN <<" ">> \o CollapseWs(LStripWs(s))
         ELSE <<Head(s)>> \o CollapseWs(Tail(s))

\* _clean_token
CleanToken(t) == LowerStr(CollapseWs(StripAccents(StripWs(t))))

CANON_MAP ==
    { [k |-> <<"i", "i", "o", "t">>, v |-> <<"I", "I", "o", "T">>],
      [k |-> <<"i", "n", "d", "u", "s", "t", "r", "i", "a", "l", " ", "i", "o", "t">>, v |-> <<"I", "I", "o", "T">>],
      [k |-> <<"i", "n", "d", "u", "s", "t", "r", "i", "a", "l", " ", "e", "d", "g", "e", " ", "c", "o", "m", "p", "u", "t", "i", "n", "g">>, v |-> <<"I", "I", "o", "T">>],
      [k |-> <<"s", "m", "a", "r", "t", " ", "m", "a", "n", "u", "f", "a", "c", "t", "u", "r", "i", "n", "g">>, v |-> <<"I", "I", "o", "T">>],
      [k |-> <<"i", "n", "d", "u", "s", "t", "r", "y", " ", "4", ".", "0">>, v |-> <<"I", "n", "d", "u", "s", "t", "r", "y", " ", "4", ".", "0">>],
      [k |-> <<"I", "I", "o", "T">>, v |-> <<"I", "I", "o", "T">>],
      [k |-> <<"S", "m", "a", "r", "t", " ", "E", "n", "v", "i", "r", "o", "n", "m", "e", "n", "t">>, v |-> <<"S", "m", "a", "r", "t", " ", "E", "n", "v", "i", "r", "o", "n", "m", "e", "n", "t">>],
      [k |-> <<"D", "a", "t", "a", " ", "s", "t", "r", "e", "a", "m", "i", "n", "g", " ", "p", "r", "o", "c", "e", "s", "s", "i", "n", "g">>, v |-> <<"D", "a", "t", "a", " ", "s", "t", "r", "e", "a", "m", "i", "n", "g", " ", "p", "r", "o", "c", "e", "s", "s", "i", "n", "g">>],
      [k |-> <<"s", "m", "a", "r", "t", " ", "e", "n", "v", "i", "r", "o", "n", "m", "e", "n", "t">>, v |-> <<"S", "m", "a", "r", "t", " ", "E", "n", "v", "i", "r", "o", "n", "m", "e", "n", "t">>],
      [k |-> <<"s", "m", "a", "r", "t", " ", "e", "n", "v", "i", "r", "o", "n", "m", "e", "n", "t", "s">>, v |-> <<"S", "m", "a", "r", "t", " ", "E", "n", "v", "i", "r", "o", "n", "m", "e", "n", "t">>],
      [k |-> <<"c", "o", "m", "p", "u", "t", "e", "r", " ", "v", "i", "s", "i", "o", "n">>, v |-> <<"C", "o", "m", "p", "u", "t", "e", "r", " ", "V", "i", "s", "i", "o", "n">>],
      [k |-> <<"v", "i", "s", "i", "o", "n">>, v |-> <<"C", "o", "m", "p", "u", "t", "e", "r", " ", "V", "i", "s", "i", "o", "n">>],
      [k |-> <<"s", "p", "e", "e", "c", "h">>, v |-> <<"S", "p", "e", "e", "c", "h">>],
      [k |-> <<"a", "u", "d", "i", "o", " ", "a", "n", "a", "l", "i", "s", "y", "s">>, v |-> <<"A", "u", "d", "i", "o", " ", "A", "n", "a", "l", "y", "s", "i", "s">>],
      [k |-> <<"a", "u", "d", "i", "o", " ", "a", "n", "a", "l", "y", "s", "i", "s">>, v |-> <<"A", "u", "d", "i", "o", " ", "A", "n", "a", "l", "y", "s", "i", "s">>],
      [k |-> <<"c", "h", "a", "t", "b", "o", "t">>, v |-> <<"C", "h", "a", "t", "b", "o", "t">>],
      [k |-> <<"o", "r", "c", "h", "e", "s", "t", "r", "a", "t", "i", "o", "n">>, v |-> <<"O", "r", "c", "h", "e", "s", "t", "r", "a", "t", "i", "o", "n">>],
      [k |-> <<"f", "e", "d", "e", "r", "a", "t", "e", "d", " ", "l", "e", "a", "r", "n", "i", "n", "g">>, v |-> <<"F", "e", "d", "e", "r", "a", "t", "e", "d", " ", "L", "e", "a", "r", "n", "i", "n", "g">>],
      [k |-> <<"e", "f", "f", "i", "c", "i", "e", "n", "t", " ", "a", "i">>, v |-> <<"E", "f", "f", "i", "c", "i", "e", "n", "t", " ", "A", "I">>],
      [k |-> <<"e", "f", "f", "i", "c", "i", "e", "n", "t", "e", " ", "a", "i">>, v |-> <<"E", "f", "f", "i", "c", "i", "e", "n", "t", " ", "A", "I">>],
      [k |-> <<"a", "i", "o", "t">>, v |-> <<"I", "o", "T">>],
      [k |-> <<"i", "o", "t">>, v |-> <<"I", "o", "T">>],
      [k |-> <<"a", "u", "t", "o", "n", "o", "m", "o", "u", "s", " ", "s", "y", "s", "t", "e", "m", "s">>, v |-> <<"A", "u", "t", "o", "n", "o", "m", "o", "u", "s", " ", "S", "y", "s", "t", "e", "m", "s">>],
      [k |-> <<"a", "u", "t", "o", "n", "o", "m", "o", "u", "s", " ", "s", "y", "s", "t", "e", "m">>, v |-> <<"A", "u", "t", "o", "n", "o", "m", "o", "u", "s", " ", "S", "y", "s", "t", "e", "m", "s">>],
      [k |-> <<"r", "o", "b", "o", "t", "i", "c">>, v |-> <<"R", "o", "b", "o", "t", "i", "c", "s">>],
      [k |-> <<"r", "o", "b", "o", "t", "i", "c", "s">>, v |-> <<"R", "o", "b", "o", "t", "i", "c", "s">>],
      [k |-> <<"h", "e", "a", "l", "t", "h", "c", "a", "r", "e">>, v |-> <<"H", "e", "a", "l", "t", "h", "c", "a", "r", "e">>],
      [k |-> <<"m", "e", "d", "i", "c", "a", "l", " ", "i", "o", "t">>, v |-> <<"H", "e", "a", "l", "t", "h", "c", "a", "r", "e">>],
      [k |-> <<"m", "o", "b", "i", "l", "e", " ", "i", "o", "t">>, v |-> <<"M", "o", "b", "i", "l", "e", " ", "I", "o", "T">>],
      [k |-> <<"r", "e", "a", "l", " ", "t", "i", "m", "e", " ", "d", "a", "t", "a", " ", "p", "r", "o", "c", "e", "s", "s", "i", "n", "g">>, v |-> <<"D", "a", "t", "a", " ", "S", "t", "r", "e", "a", "m", "i", "n", "g", " ", "&", " ", "R", "e", "a", "l", "-", "T", "i", "m", "e">>],
      [k |-> <<"r", "e", "a", "l", "-", "t", "i", "m", "e", " ", "d", "a", "t", "a", " ", "p", "r", "o", "c", "e", "s", "s", "i", "n", "g">>, v |-> <<"D", "a", "t", "a", " ", "S", "t", "r", "e", "a", "m", "i", "n", "g", " ", "&", " ", "R", "e", "a", "l", "-", "T", "i", "m", "e">>],
      [k |-> <<"r", "e", "a", "l", "-", "t", "i", "m", "e", " ", "d", "a", "t", "a", " ", "s", "t", "r", "e", "a", "m", "i", "n", "g">>, v |-> <<"D", "a", "t", "a", " ", "S", "t", "r", "e", "a", "m", "i", "n", "g", " ", "&", " ", "R", "e", "a", "l", "-", "T", "i", "m", "e">>],
      [k |-> <<"r", "e", "a", "l", " ", "t", "i", "m", "e", " ", "d", "a", "t", "a", " ", "s", "t", "r", "e", "a", "m", "i", "n", "g">>, v |-> <<"D", "a", "t", "a", " ", "S", "t", "r", "e", "a", "m", "i", "n", "g", " ", "&", " ", "R", "e", "a", "l", "-", "T", "i", "m", "e">>],
      [k |-> <<"d", "a", "t", "a", " ", "s", "t", "r", "e", "a", "m", "i", "n", "g", " ", "p", "r", "o", "c", "e", "s", "s", "i", "n", "g">>, v |-> <<"D", "a", "t", "a", " ", "S", "t", "r", "e", "a", "m", "i", "n", "g", " ", "&", " ", "R", "e", "a", "l", "-", "T", "i", "m", "e">>],
      [k |-> <<"d", "a", "t", "a", " ", "s", "t", "r", "e", "a", "m", "i", "n", "g">>, v |-> <<"D", "a", "t", "a", " ", "S", "t", "r", "e", "a", "m", "i", "n", "g", " ", "&", " ", "R", "e", "a", "l", "-", "T", "i", "m", "e">>],
      [k |-> <<"m", "o", "d", "e", "l", "-", "d", "r", "i", "v", "e", "n", " ", "e", "n", "g", "i", "n", "e", "e", "r", "i", "n", "g", " ", "(", "m", "d", "e", ")">>, v |-> <<"M", "D", "E">>],
      [k |-> <<"o", "t", "h", "e", "r", "s">>, v |-> <<"O", "t", "h", "e", "r", "s">>] }

InCanonMap(base) == \E e \in CANON_MAP : e.k = base
CanonLabel(base) == (CHOOSE e \in CANON_MAP : e.k = base).v

\* \w of the regular expressions
IsWordChar(c) == c \in Letters \cup Digits \cup Accented \cup {"_"}

\* \b at the left of position i and at the right of position j of s
BoundaryBefore(s, i) == i = 1 \/ ~IsWordChar(s[i - 1])
BoundaryAfter(s, j)  == j = Len(s) \/ ~IsWordChar(s[j + 1])

\* pat.search(s) for a pattern \b(alt1|alt2|...)\b
SearchWordsNoBoundary(s, alts) ==
    \E a \in alts : \E i \in 1..(Len(s) - Len(a) + 1) :
        SubSeq(s, i, i + Len(a) - 1) = a

SearchWords(s, alts) ==
    \E a \in alts : \E i \in 1..(Len(s) - Len(a) + 1) :
        /\ SubSeq(s, i, i + Len(a) - 1) = a
        /\ BoundaryBefore(s, i)
        /\ BoundaryAfter(s, i + Len(a) - 1)

\* real[-\s]?time | rt
RealTimeWords ==
    { <<"r", "e", "a", "l", "t", "i", "m", "e">>, <<"r", "e", "a", "l", "-", "t", "i", "m", "e">>, <<"r", "t">> } \cup { <<"r", "e", "a", "l">> \o <<w>> \o <<"t", "i", "m", "e">> : w \in Whitespace }

\* stream(ing)?
StreamWords == { <<"s", "t", "r", "e", "a", "m">>, <<"s", "t", "r", "e", "a", "m", "i", "n", "g">> }

STREAMING == <<"D", "a", "t", "a", " ", "S", "t", "r", "e", "a", "m", "i", "n", "g", " ", "&", " ", "R", "e", "a", "l", "-", "T", "i", "m", "e">>

\* _REGEX_RULES: the label of the first rule that matches, None if none does
RegexLabel(base) ==
    IF SearchWords(base, RealTimeWords) THEN Some(STREAMING)
    ELSE IF SearchWords(base, StreamWords) THEN Some(STREAMING)
    ELSE None

UpperChar(c) ==
    IF \E i \in 1..Len(LowerCase) : LowerCase[i] = c
    THEN UpperCase[CHOOSE i \in 1..Len(LowerCase) : LowerCase[i] = c]
    ELSE c

\* str.title(): a letter is upper-cased after a non-letter, lower-cased after a letter
Title(s) ==
    [i \in 1..Len(s) |->
        IF i > 1 /\ s[i - 1] \in Letters \cup Accented THEN LowerChar(s[i])
        ELSE UpperChar(s[i])]

\* normalize_domain_token
NormalizeDomainToken(raw) ==
    LET base == CleanToken(raw)
    IN  IF base = <<>> THEN <<>>
        ELSE IF RegexLabel(base) # None THEN RegexLabel(base)[1]
        ELSE IF InCanonMap(base) THEN CanonLabel(base)
        ELSE IF base \in {<<"a", "u", "t", "o", "n", "o", "m", "o", "u", "s">>, <<"a", "u", "t", "o", "n", "o", "m", "o", "u", "s", " ", "s", "y", "s", "t", "e", "m", "s">>} THEN <<"A", "u", "t", "o", "n", "o", "m", "o", "u", "s", " ", "S", "y", "s", "t", "e", "m", "s">>
        ELSE IF base \in {<<"i", "n", "d", "u", "s", "t", "r", "i", "a", "l">>, <<"i", "n", "d", "u", "s", "t", "r", "i", "a", "l", " ", "e", "d", "g", "e">>, <<"i", "n", "d", "u", "s", "t", "r", "i", "a", "l", " ", "i", "n", "t", "e", "r", "n", "e", "t", " ", "o", "f", " ", "t", "h", "i", "n", "g", "s">>} THEN <<"I", "I", "o", "T">>
        ELSE Title(CollapseWs(StripWs(raw)))

RawTokens ==
    { <<"i", "i", "o", "t">>,
      <<" ", " ", "I", "i", "o", "t", " ">>,
      <<"i", "n", "d", "u", "s", "t", "r", "i", "a", "l", " ", "i", "o", "t">>,
      <<" ", " ", "I", "n", "d", "u", "s", "t", "r", "i", "a", "l", " ", "I", "o", "t", " ">>,
      <<"I", "N", "D", "U", "S", "T", "R", "I", "A", "L", " ", " ", "I", "O", "T">>,
      <<"i", "n", "d", "u", "s", "t", "r", "i", "a", "l", " ", "e", "d", "g", "e", " ", "c", "o", "m", "p", "u", "t", "i", "n", "g">>,
      <<" ", " ", "I", "n", "d", "u", "s", "t", "r", "i", "a", "l", " ", "E", "d", "g", "e", " ", "C", "o", "m", "p", "u", "t", "i", "n", "g", " ">>,
      <<"I", "N", "D", "U", "S", "T", "R", "I", "A", "L", " ", " ", "E", "D", "G", "E", " ", "C", "O", "M", "P", "U", "T", "I", "N", "G">>,
      <<"s", "m", "a", "r", "t", " ", "m", "a", "n", "u", "f", "a", "c", "t", "u", "r", "i", "n", "g">>,
      <<" ", " ", "S", "m", "a", "r", "t", " ", "M", "a", "n", "u", "f", "a", "c", "t", "u", "r", "i", "n", "g", " ">>,
      <<"S", "M", "A", "R", "T", " ", " ", "M", "A", "N", "U", "F", "A", "C", "T", "U", "R", "I", "N", "G">>,
      <<"i", "n", "d", "u", "s", "t", "r", "y", " ", "4", ".", "0">>,
      <<" ", " ", "I", "n", "d", "u", "s", "t", "r", "y", " ", "4", ".", "0", " ">>,
      <<"I", "N", "D", "U", "S", "T", "R", "Y", " ", " ", "4", ".", "0">>,
      <<"I", "I", "o", "T">>,
      <<"S", "m", "a", "r", "t", " ", "E", "n", "v", "i", "r", "o", "n", "m", "e", "n", "t">>,
      <<"D", "a", "t", "a", " ", "s", "t", "r", "e", "a", "m", "i", "n", "g", " ", "p", "r", "o", "c", "e", "s", "s", "i", "n", "g">>,
      <<"s", "m", "a", "r", "t", " ", "e", "n", "v", "i", "r", "o", "n", "m", "e", "n", "t">>,
      <<" ", " ", "S", "m", "a", "r", "t", " ", "E", "n", "v", "i", "r", "o", "n", "m", "e", "n", "t", " ">>,
      <<"S", "M", "A", "R", "T", " ", " ", "E", "N", "V", "I", "R", "O", "N", "M", "E", "N", "T">>,
      <<"s", "m", "a", "r", "t", " ", "e", "n", "v", "i", "r", "o", "n", "m", "e", "n", "t", "s">>,
      <<" ", " ", "S", "m", "a", "r", "t", " ", "E", "n", "v", "i", "r", "o", "n", "m", "e", "n", "t", "s", " ">>,
      <<"S", "M", "A", "R", "T", " ", " ", "E", "N", "V", "I", "R", "O", "N", "M", "E", "N", "T", "S">>,
      <<"c", "o", "m", "p", "u", "t", "e", "r", " ", "v", "i", "s", "i", "o", "n">>,
      <<" ", " ", "C", "o", "m", "p", "u", "t", "e", "r", " ", "V", "i", "s", "i", "o", "n", " ">>,
      <<"C", "O", "M", "P", "U", "T", "E", "R", " ", " ", "V", "I", "S", "I", "O", "N">>,
      <<"v", "i", "s", "i", "o", "n">>,
      <<" ", " ", "V", "i", "s", "i", "o", "n", " ">>,
      <<"s", "p", "e", "e", "c", "h">>,
      <<" ", " ", "S", "p", "e", "e", "c", "h", " ">>,
      <<"a", "u", "d", "i", "o", " ", "a", "n", "a", "l", "i", "s", "y", "s">>,
      <<" ", " ", "A", "u", "d", "i", "o", " ", "A", "n", "a", "l", "i", "s", "y", "s", " ">>,
      <<"A", "U", "D", "I", "O", " ", " ", "A", "N", "A", "L", "I", "S", "Y", "S">>,
      <<"a", "u", "d", "i", "o", " ", "a", "n", "a", "l", "y", "s", "i", "s">>,
      <<" ", " ", "A", "u", "d", "i", "o", " ", "A", "n", "a", "l", "y", "s", "i", "s", " ">>,
      <<"A", "U", "D", "I", "O", " ", " ", "A", "N", "A", "L", "Y", "S", "I", "S">>,
      <<"c", "h", "a", "t", "b", "o", "t">>,
      <<" ", " ", "C", "h", "a", "t", "b", "o", "t", " ">>,
      <<"o", "r", "c", "h", "e", "s", "t", "r", "a", "t", "i", "o", "n">>,
      <<" ", " ", "O", "r", "c", "h", "e", "s", "t", "r", "a", "t", "i", "o", "n", " ">>,
      <<"f", "e", "d", "e", "r", "a", "t", "e", "d", " ", "l", "e", "a", "r", "n", "i", "n", "g">>,
      <<" ", " ", "F", "e", "d", "e", "r", "a", "t", "e", "d", " ", "L", "e", "a", "r", "n", "i", "n", "g", " ">>,
      <<"F", "E", "D", "E", "R", "A", "T", "E", "D", " ", " ", "L", "E", "A", "R", "N", "I", "N", "G">>,
      <<"e", "f", "f", "i", "c", "i", "e", "n", "t", " ", "a", "i">>,
      <<" ", " ", "E", "f", "f", "i", "c", "i", "e", "n", "t", " ", "A", "i", " ">>,
      <<"E", "F", "F", "I", "C", "I", "E", "N", "T", " ", " ", "A", "I">>,
      <<"e", "f", "f", "i", "c", "i", "e", "n", "t", "e", " ", "a", "i">>,
      <<" ", " ", "E", "f", "f", "i", "c", "i", "e", "n", "t", "e", " ", "A", "i", " ">>,
      <<"E", "F", "F", "I", "C", "I", "E", "N", "T", "E", " ", " ", "A", "I">>,
      <<"a", "i", "o", "t">>,
      <<" ", " ", "A", "i", "o", "t", " ">>,
      <<"i", "o", "t">>,
      <<" ", " ", "I", "o", "t", " ">>,
      <<"a", "u", "t", "o", "n", "o", "m", "o", "u", "s", " ", "s", "y", "s", "t", "e", "m", "s">>,
      <<" ", " ", "A", "u", "t", "o", "n", "o", "m", "o", "u", "s", " ", "S", "y", "s", "t", "e", "m", "s", " ">>,
      <<"A", "U", "T", "O", "N", "O", "M", "O", "U", "S", " ", " ", "S", "Y", "S", "T", "E", "M", "S">>,
      <<"a", "u", "t", "o", "n", "o", "m", "o", "u", "s", " ", "s", "y", "s", "t", "e", "m">>,
      <<" ", " ", "A", "u", "t", "o", "n", "o", "m", "o", "u", "s", " ", "S", "y", "s", "t", "e", "m", " ">>,
      <<"A", "U", "T", "O", "N", "O", "M", "O", "U", "S", " ", " ", "S", "Y", "S", "T", "E", "M">>,
      <<"r", "o", "b", "o", "t", "i", "c">>,
      <<" ", " ", "R", "o", "b", "o", "t", "i", "c", " ">>,
      <<"r", "o", "b", "o", "t", "i", "c", "s">>,
      <<" ", " ", "R", "o", "b", "o", "t", "i", "c", "s", " ">>,
      <<"h", "e", "a", "l", "t", "h", "c", "a", "r", "e">>,
      <<" ", " ", "H", "e", "a", "l", "t", "h", "c", "a", "r", "e", " ">>,
      <<"m", "e", "d", "i", "c", "a", "l", " ", "i", "o", "t">>,
      <<" ", " ", "M", "e", "d", "i", "c", "a", "l", " ", "I", "o", "t", " ">>,
      <<"M", "E", "D", "I", "C", "A", "L", " ", " ", "I", "O", "T">>,
      <<"m", "o", "b", "i", "l", "e", " ", "i", "o", "t">>,
      <<" ", " ", "M", "o", "b", "i", "l", "e", " ", "I", "o", "t", " ">>,
      <<"M", "O", "B", "I", "L", "E", " ", " ", "I", "O", "T">>,
      <<"r", "e", "a", "l", " ", "t", "i", "m", "e", " ", "d", "a", "t", "a", " ", "p", "r", "o", "c", "e", "s", "s", "i", "n", "g">>,
      <<" ", " ", "R", "e", "a", "l", " ", "T", "i", "m", "e", " ", "D", "a", "t", "a", " ", "P", "r", "o", "c", "e", "s", "s", "i", "n", "g", " ">>,
      <<"R", "E", "A", "L", " ", " ", "T", "I", "M", "E", " ", "D", "A", "T", "A", " ", "P", "R", "O", "C", "E", "S", "S", "I", "N", "G">>,
      <<"r", "e", "a", "l", "-", "t", "i", "m", "e", " ", "d", "a", "t", "a", " ", "p", "r", "o", "c", "e", "s", "s", "i", "n", "g">>,
      <<" ", " ", "R", "e", "a", "l", "-", "T", "i", "m", "e", " ", "D", "a", "t", "a", " ", "P", "r", "o", "c", "e", "s", "s", "i", "n", "g", " ">>,
      <<"R", "E", "A", "L", "-", "T", "I", "M", "E", " ", " ", "D", "A", "T", "A", " ", "P", "R", "O", "C", "E", "S", "S", "I", "N", "G">>,
      <<"r", "e", "a", "l", "-", "t", "i", "m", "e", " ", "d", "a", "t", "a", " ", "s", "t", "r", "e", "a", "m", "i", "n", "g">>,
      <<" ", " ", "R", "e", "a", "l", "-", "T", "i", "m", "e", " ", "D", "a", "t", "a", " ", "S", "t", "r", "e", "a", "m", "i", "n", "g", " ">>,
      <<"R", "E", "A", "L", "-", "T", "I", "M", "E", " ", " ", "D", "A", "T", "A", " ", "S", "T", "R", "E", "A", "M", "I", "N", "G">>,
      <<"r", "e", "a", "l", " ", "t", "i", "m", "e", " ", "d", "a", "t", "a", " ", "s", "t", "r", "e", "a", "m", "i", "n", "g">>,
      <<" ", " ", "R", "e", "a", "l", " ", "T", "i", "m", "e", " ", "D", "a", "t", "a", " ", "S", "t", "r", "e", "a", "m", "i", "n", "g", " ">>,
      <<"R", "E", "A", "L", " ", " ", "T", "I", "M", "E", " ", "D", "A", "T", "A", " ", "S", "T", "R", "E", "A", "M", "I", "N", "G">>,
      <<"d", "a", "t", "a", " ", "s", "t", "r", "e", "a", "m", "i", "n", "g", " ", "p", "r", "o", "c", "e", "s", "s", "i", "n", "g">>,
      <<" ", " ", "D", "a", "t", "a", " ", "S", "t", "r", "e", "a", "m", "i", "n", "g", " ", "P", "r", "o", "c", "e", "s", "s", "i", "n", "g", " ">>,
      <<"D", "A", "T", "A", " ", " ", "S", "T", "R", "E", "A", "M", "I", "N", "G", " ", "P", "R", "O", "C", "E", "S", "S", "I", "N", "G">>,
      <<"d", "a", "t", "a", " ", "s", "t", "r", "e", "a", "m", "i", "n", "g">>,
      <<" ", " ", "D", "a", "t", "a", " ", "S", "t", "r", "e", "a", "m", "i", "n", "g", " ">>,
      <<"D", "A", "T", "A", " ", " ", "S", "T", "R", "E", "A", "M", "I", "N", "G">>,
      <<"m", "o", "d", "e", "l", "-", "d", "r", "i", "v", "e", "n", " ", "e", "n", "g", "i", "n", "e", "e", "r", "i", "n", "g", " ", "(", "m", "d", "e", ")">>,
      <<" ", " ", "M", "o", "d", "e", "l", "-", "D", "r", "i", "v", "e", "n", " ", "E", "n", "g", "i", "n", "e", "e", "r", "i", "n", "g", " ", "(", "M", "d", "e", ")", " ">>,
      <<"M", "O", "D", "E", "L", "-", "D", "R", "I", "V", "E", "N", " ", " ", "E", "N", "G", "I", "N", "E", "E", "R", "I", "N", "G", " ", "(", "M", "D", "E", ")">>,
      <<"o", "t", "h", "e", "r", "s">>,
      <<" ", " ", "O", "t", "h", "e", "r", "s", " ">>,
      <<>>,
      <<" ", " ">>,
      <<"r", "t">>,
      <<"R", "T", " ", "s", "y", "s", "t", "e", "m", "s">>,
      <<"r", "e", "a", "l", "-", "t", "i", "m", "e", " ", "a", "n", "a", "l", "y", "t", "i", "c", "s">>,
      <<"r", "e", "a", "l", "t", "i", "m", "e">>,
      <<"s", "t", "r", "e", "a", "m", " ", "p", "r", "o", "c", "e", "s", "s", "i", "n", "g">>,
      <<"v", "i", "d", "e", "o", " ", "s", "t", "r", "e", "a", "m", "s">>,
      <<"s", "m", "a", "r", "t", "s", "t", "r", "e", "a", "m">>,
      <<"a", "u", "t", "o", "n", "o", "m", "o", "u", "s">>,
      <<"i", "n", "d", "u", "s", "t", "r", "i", "a", "l", " ", "e", "d", "g", "e">>,
      <<"i", "n", "d", "u", "s", "t", "r", "i", "a", "l", " ", "i", "n", "t", "e", "r", "n", "e", "t", " ", "o", "f", " ", "t", "h", "i", "n", "g", "s">>,
      <<"e", "d", "g", "e", " ", "m", "l">>,
      <<"s", "a", "u^", "d", "e", " ", "d", "i", "g", "i", "t", "a", "l">>,
      <<"A", "u", "d", "i", "o", " ", " ", "A", "n", "a^", "l", "i", "s", "y", "s">>,
      <<"s", "m", "a", "r", "t", "\t", "e", "n", "v", "i", "r", "o", "n", "m", "e", "n", "t">>,
      <<"e^", "d", "g", "e", " ", " ", "A", "I">> }

TokInit == \E raw \in RawTokens : tok = [pc |-> "start", raw |-> raw, label |-> <<>>]

\* label = normalize_domain_token(raw)
NormalizeToken ==
    /\ tok.pc = "start"
    /\ tok' = [tok EXCEPT !.pc = "done", !.label = NormalizeDomainToken(tok.raw)]
    /\ UNCHANGED <<minerVars, filterVars, dedupVars, excl, dom, arch, mn>>

TInit == MinerIdle /\ FilterIdle /\ DedupIdle /\ ExclIdle /\ TokInit
                   /\ DomIdle /\ ArchIdle /\ MainIdle
TNext == NormalizeToken
TokenSpec == TInit /\ [][TNext]_vars

----------------------------------------------------------------------------
(* Properties of normalize_domain_token *)

\* C13: a raw token whose cleaned form is a key of CANON_MAP is given the
\* label the map holds for that key, whether or not a real-time/streaming
\* rule matched first; in particular 'IIoT' is given 'IIoT'.
C13_MapKeysGetMapLabel ==
    tok.pc = "done" =>
        /\ InCanonMap(CleanToken(tok.raw)) => tok.label = CanonLabel(CleanToken(tok.raw))
        /\ tok.raw = <<"I", "I", "o", "T">> => tok.label = <<"I", "I", "o", "T">>

C13_Witness ==
    /\ tok.pc = "done"
    /\ tok.raw = <<" ", " ", "R", "e", "a", "l", "-", "T", "i", "m", "e", " ", "D", "a", "t", "a", " ", "S", "t", "r", "e", "a", "m", "i", "n", "g", " ">>
    /\ CleanToken(tok.raw) = <<"r", "e", "a", "l", "-", "t", "i", "m", "e", " ", "d", "a", "t", "a", " ", "s", "t", "r", "e", "a", "m", "i", "n", "g">>
    /\ InCanonMap(CleanToken(tok.raw))
    /\ RegexLabel(CleanToken(tok.raw)) # None
    /\ tok.label = STREAMING

----------------------------------------------------------------------------
(* handle_domain.py: main *)

MaxDomRows == 2      \* rows of the input CSV of handle_domain
MaxTopN    == 2      \* --topN ranges over -1..MaxTopN

\* the characters in code point order (str comparison of sorted())
CodeOrder ==
    <<"\t", " ", "&", "(", ")", ",", "-", ".", "/", "0", "1", "2", "3", "4", "5", "6", "7", "8", "9", ":", "A", "B", "C", "D", "E", "F", "G", "H", "I", "J", "K", "L", "M", "N", "O", "P", "Q", "R", "S", "T", "U", "V", "W", "X", "Y", "Z", "_", "a", "b", "c", "d", "e", "f", "g", "h", "i", "j", "k", "l", "m", "n", "o", "p", "q", "r", "s", "t", "u", "v", "w", "x", "y", "z", "a^", "e^", "i^", "o^", "u^">>

Code(c) == CHOOSE i \in 1..Len(CodeOrder) : CodeOrder[i] = c

RECURSIVE StrLess(_, _)
StrLess(a, b) ==
    IF b = <<>> THEN FALSE
    ELSE IF a = <<>> THEN TRUE
    ELSE IF Head(a) = Head(b) THEN StrLess(Tail(a), Tail(b))
    ELSE Code(Head(a)) < Code(Head(b))

\* sorted(set(labels))
RECURSIVE SortedSet(_)
SortedSet(S) ==
    IF S = {} THEN <<>>
    ELSE LET m == CHOOSE x \in S : \A y \in S \ {x} : StrLess(x, y)
         IN  <<m>> \o SortedSet(S \ {m})

NonEmpty(t) == t # <<>>

\* split_domains
SplitDomains(cell) ==
    IF IsNa(cell) THEN <<>>
    ELSE LET parts == Split(cell[1], ",")
         IN  SelectSeq([i \in 1..Len(parts) |-> StripWs(parts[i])], NonEmpty)

\* normalize_domains
NormalizeDomains(tokens) ==
    SelectSeq([i \in 1..Len(tokens) |-> NormalizeDomainToken(tokens[i])], NonEmpty)

\* the id column: args.idcol when given and present, else range(1, len(df) + 1)
RangeIds == <<"1", "2", "3", "4">>

IdSeries(table, useId) ==
    [i \in 1..Len(table) |-> IF useId THEN table[i].id ELSE RangeIds[i]]

\* Series.nunique(): the distinct values, NaN left out
NUnique(ids) == Cardinality(Range(ids) \ {"NaN"})

\* the rows appended for one input row: one per domain of sorted(set(...))
RowsOf(repo_id, cell) ==
    LET norm_tokens == SortedSet(Range(NormalizeDomains(SplitDomains(cell))))
    IN  [k \in 1..Len(norm_tokens) |-> [id |-> repo_id, domain |-> norm_tokens[k]]]

\* the loop over zip(id_series, df[col])
LongRows(ids, table) ==
    LET F[i \in 0..Len(table)] ==
            IF i = 0 THEN <<>> ELSE F[i - 1] \o RowsOf(ids[i], table[i].cell)
    IN  F[Len(table)]

\* Series.value_counts(): the distinct values with their number of rows, the
\* most frequent first, equal counts in the order of first appearance
Uniques(seq) ==
    LET F[i \in 0..Len(seq)] ==
            IF i = 0 THEN <<>>
            ELSE IF seq[i] \in Range(F[i - 1]) THEN F[i - 1]
            ELSE Append(F[i - 1], seq[i])
    IN  F[Len(seq)]

CountOf(x, seq) == Cardinality({i \in 1..Len(seq) : seq[i] = x})

RECURSIVE InsertByCount(_, _)
InsertByCount(sorted, r) ==
    IF sorted = <<>> THEN <<r>>
    ELSE IF Head(sorted).count >= r.count
         THEN <<Head(sorted)>> \o InsertByCount(Tail(sorted), r)
         ELSE <<r>> \o sorted

ValueCounts(seq) ==
    LET u == Uniques(seq)
        F[i \in 0..Len(u)] ==
            IF i = 0 THEN <<>>
            ELSE InsertByCount(F[i - 1], [domain |-> u[i], count |-> CountOf(u[i], seq)])
    IN  F[Len(u)]

\* round(2) of a percentage n/d, in hundredths (round half to even)
RoundHalfEven(n, d) ==
    LET q == n \div d
        r == n % d
    IN  IF 2 * r < d THEN q
        ELSE IF 2 * r > d THEN q + 1
        ELSE IF q % 2 = 0 THEN q ELSE q + 1

\* count / float(total) * 100, rounded: inf when total is 0
Percentage(count, total) ==
    IF total = 0 THEN [inf |-> TRUE, hundredths |-> 0]
    ELSE [inf |-> FALSE, hundredths |-> RoundHalfEven(count * 10000, total)]

\* the counts table with its percentage column
CountsTable(long, total_repos) ==
    LET vc == ValueCounts([i \in 1..Len(long) |-> long[i].domain])
    IN  [i \in 1..Len(vc) |->
            [domain |-> vc[i].domain, count |-> vc[i].count,
             percentage |-> Percentage(vc[i].count, total_repos)]]

\* plot_df = counts.head(topN) when topN > 0
PlotRows(counts, topN) == IF topN > 0 THEN Take(counts, topN) ELSE counts

\* counts.to_csv(counts_path): written before topN is looked at
CountsCsvTop(counts, topN) == PlotRows(counts, topN)

CountsCsv(counts, topN) == counts

NoTable == [written |-> FALSE, rows |-> <<>>]
Table(rows) == [written |-> TRUE, rows |-> rows]

\* the files main leaves behind for a table and its arguments
DomainOutputs(table, useId, topN) ==
    LET ids    == IdSeries(table, useId)
        total  == NUnique(ids)
        long   == LongRows(ids, table)
        counts == CountsTable(long, total)
    IN  IF long = <<>>
        THEN [total_repos |-> total, long_csv |-> Table(long),
              counts_csv |-> NoTable, plot |-> NoTable]
        ELSE [total_repos |-> total, long_csv |-> Table(long),
              counts_csv |-> Table(CountsCsv(counts, topN)),
              plot |-> Table(PlotRows(counts, topN))]

DomainCells ==
    {NaN} \cup { Cell(<<"I", "o", "T">>),
      Cell(<<"i", "o", "t", ",", " ", "V", "i", "s", "i", "o", "n">>),
      Cell(<<"I", "I", "o", "T", ",", ",", " ", "i", "o", "t">>),
      Cell(<<" ", ",", " ">>) }

DomainIds == {"r1", "r2", "NaN"}

DomInit ==
    \E hasCol \in BOOLEAN, useId \in BOOLEAN, topN \in (-1)..MaxTopN :
      \E table \in SeqsUpTo([id : (IF useId THEN DomainIds ELSE {"r1"}),
                             cell : (IF hasCol THEN DomainCells ELSE {NaN})],
                            MaxDomRows) :
        dom = [pc |-> "start", hasCol |-> hasCol, useId |-> useId, topN |-> topN,
               table |-> table, runs |-> 0, total_repos |-> 0,
               long_csv |-> NoTable, counts_csv |-> NoTable, plot |-> NoTable,
               prev_long_csv |-> NoTable, prev_counts_csv |-> NoTable,
               prev_topN |-> 0]

\* main, on a CSV without the domain column: SystemExit
DomainMainNoColumn ==
    /\ dom.pc = "start"
    /\ ~dom.hasCol
    /\ dom' = [dom EXCEPT !.pc = "exit"]
    /\ UNCHANGED <<minerVars, filterVars, dedupVars, excl, tok, arch, mn>>

\* main
DomainMain ==
    /\ dom.pc = "start"
    /\ dom.hasCol
    /\ LET o == DomainOutputs(dom.table, dom.useId, dom.topN)
       IN  dom' = [dom EXCEPT !.pc = "done", !.runs = 1,
                              !.total_repos = o.total_repos,
                              !.long_csv = o.long_csv,
                              !.counts_csv = o.counts_csv,
                              !.plot = o.plot]
    /\ UNCHANGED <<minerVars, filterVars, dedupVars, excl, tok, arch, mn>>

\* main run once more on the same CSV with another --topN (an output file
\* that is not written again keeps its content)
DomainMainAgain ==
    /\ dom.pc = "done"
    /\ dom.runs = 1
    /\ \E topN \in (-1)..MaxTopN :
         LET o == DomainOutputs(dom.table, dom.useId, topN)
         IN  dom' = [dom EXCEPT !.runs = 2, !.topN = topN,
                                !.prev_topN = dom.topN,
                                !.prev_long_csv = dom.long_csv,
                                !.prev_counts_csv = dom.counts_csv,
                                !.long_csv = o.long_csv,
                                !.counts_csv = IF o.counts_csv.written
                                               THEN o.counts_csv ELSE dom.counts_csv,
                                !.plot = o.plot]
    /\ UNCHANGED <<minerVars, filterVars, dedupVars, excl, tok, arch, mn>>

DomainInit == MinerIdle /\ FilterIdle /\ DedupIdle /\ ExclIdle /\ TokIdle
                        /\ DomInit /\ ArchIdle /\ MainIdle
DomainNext == DomainMainNoColumn \/ DomainMain \/ DomainMainAgain
DomainSpec == DomainInit /\ [][DomainNext]_vars

----------------------------------------------------------------------------
(* Properties of handle_domain's main *)

\* C14 (as stated): no (id, domain) pair occurs in more than one row of the
\* long table, whatever the id column holds.
C14_OneRowPerPair ==
    dom.pc = "done" =>
        \A i, j \in 1..Len(dom.long_csv.rows) :
            i # j => dom.long_csv.rows[i] # dom.long_csv.rows[j]

\* C15 (as stated): the percentage of a domain is 100 * count / (number of
\* rows of the input CSV), rounded to two decimals, and never exceeds 100.
C15_PercentageOverInputRows ==
    (dom.pc = "done" /\ dom.counts_csv.written) =>
        \A i \in 1..Len(dom.counts_csv.rows) :
            LET r == dom.counts_csv.rows[i]
            IN  /\ ~r.percentage.inf
                /\ r.percentage.hundredths =
                       RoundHalfEven(r.count * 10000, Len(dom.table))
                /\ r.percentage.hundredths <= 10000

DomainsOf(rows) == {rows[i].domain : i \in 1..Len(rows)}

\* C16: the two CSV files do not depend on --topN (a second run with another
\* value leaves both as they were), and domains_counts.csv has exactly one
\* row for every domain of the long table.
C16_TablesIndependentOfTopN ==
    /\ dom.runs = 2 =>
         /\ dom.long_csv = dom.prev_long_csv
         /\ dom.counts_csv = dom.prev_counts_csv
    /\ (dom.pc = "done" /\ dom.long_csv.rows # <<>>) =>
         /\ dom.counts_csv.written
         /\ DomainsOf(dom.counts_csv.rows) = DomainsOf(dom.long_csv.rows)
         /\ Len(dom.counts_csv.rows) = Cardinality(DomainsOf(dom.long_csv.rows))

C16_Witness ==
    /\ dom.runs = 2 /\ dom.prev_topN = 1 /\ dom.topN = 0
    /\ Len(dom.prev_counts_csv.rows) = 3
    /\ Len(dom.counts_csv.rows) = 3
    /\ Len(dom.plot.rows) = 3

----------------------------------------------------------------------------
(* handle_app_type.py *)

MaxArchRows == 3     \* rows of the input CSV of handle_app_type

ORDER == <<"Meta-Architecture", "Platform/Infrastructure", "System", "Subsystem">>

\* a CSV cell as pandas hands it over: NaN, a number, or a string
NaNCell    == [kind |-> "nan", s |-> <<>>]
NumCell    == [kind |-> "num", s |-> <<>>]
StrCell(t) == [kind |-> "str", s |-> t]

\* _str: x if isinstance(x, str) else ""
AsStr(x) == IF x.kind = "str" THEN x.s ELSE <<>>

\* str.replace: every non-overlapping occurrence, left to right
RECURSIVE Replace(_, _, _)
Replace(s, old, new) ==
    IF Len(s) < Len(old) THEN s
    ELSE IF IsPrefix(old, s)
         THEN new \o Replace(SubSeq(s, Len(old) + 1, Len(s)), old, new)
         ELSE <<Head(s)>> \o Replace(Tail(s), old, new)

normalize_label(raw) ==
    LET s0 == Replace(Replace(LowerStr(StripWs(AsStr(raw))), <<"_">>, <<" ">>),
                      <<"-">>, <<>>)
        s1 == Replace(s0, <<"f", "u", "l", "l", " ", "s", "y", "s", "t", "e", "m">>, <<"s", "y", "s", "t", "e", "m">>)
        s2 == Replace(s1, <<"s", "u", "b", " ", "s", "y", "s", "t", "e", "m">>, <<"s", "u", "b", "s", "y", "s", "t", "e", "m">>)
        s3 == Replace(s2, <<"s", "u", "b", "-", "s", "i", "s", "t", "e", "m", "a">>, <<"s", "u", "b", "s", "y", "s", "t", "e", "m">>)
        s4 == Replace(s3, <<"s", "i", "s", "t", "e", "m", "a">>, <<"s", "y", "s", "t", "e", "m">>)
    IN  Replace(s4, <<"p", "l", "a", "t", "a", "f", "o", "r", "m", "a">>, <<"p", "l", "a", "t", "f", "o", "r", "m">>)

meta_keys ==
    { <<"4", "2", "0", "1", "0">>,
      <<"r", "e", "f", "e", "r", "e", "n", "c", "e", " ", "a", "r", "c", "h", "i", "t", "e", "c", "t", "u", "r", "e">>,
      <<"v", "i", "e", "w", "p", "o", "i", "n", "t">>,
      <<"v", "i", "e", "w", "p", "o", "i", "n", "t", "s">>,
      <<"m", "e", "t", "a", "m", "o", "d", "e", "l">>,
      <<"i", "s", "o", " ", "3", "0", "1", "4", "1">>,
      <<"3", "0", "1", "4", "1">>,
      <<"t", "o", "g", "a", "f">>,
      <<"d", "o", "d", "a", "f">>,
      <<"a", "d", "l">>,
      <<"a", "r", "c", "h", "i", "t", "e", "c", "t", "u", "r", "e", " ", "d", "e", "s", "c", "r", "i", "p", "t", "i", "o", "n">>,
      <<"a", "r", "c", "h", "i", "t", "e", "c", "t", "u", "r", "e", " ", "f", "r", "a", "m", "e", "w", "o", "r", "k">>,
      <<"r", "e", "f", "e", "r", "e", "n", "c", "e", " ", "m", "o", "d", "e", "l">>,
      <<" ", "r", "a", " ">>,
      <<" ", "r", "a", ":">>,
      <<" ", "r", "a", "-">>,
      <<" ", "r", "a", "/">>,
      <<"m", "o", "d", "e", "l", "-", "d", "r", "i", "v", "e", "n">> }

PlatformLabels == { <<"p", "l", "a", "t", "f", "o", "r", "m">>,
      <<"p", "l", "a", "t", "f", "o", "r", "m", "/", "f", "r", "a", "m", "e", "w", "o", "r", "k">>,
      <<"f", "r", "a", "m", "e", "w", "o", "r", "k", "/", "p", "l", "a", "t", "f", "o", "r", "m">> }

\* the final return of map_arch_layer
DefaultLayerOther(l) == "Other"

DefaultLayer(l) == "System"

map_arch_layer(label, name_hint) ==
    LET l == normalize_label(label)
        n == LowerStr(AsStr(name_hint))
    IN  IF l = <<"s", "y", "s", "t", "e", "m">> THEN "System"
        ELSE IF l = <<"s", "u", "b", "s", "y", "s", "t", "e", "m">> THEN "Subsystem"
        ELSE IF l \in PlatformLabels THEN "Platform/Infrastructure"
        ELSE IF l = <<"f", "r", "a", "m", "e", "w", "o", "r", "k">>
             THEN IF \E k \in meta_keys : Contains(n, k)
                  THEN "Meta-Architecture"
                  ELSE "Platform/Infrastructure"
        ELSE DefaultLayer(l)

\* pd.Categorical(..., categories=ORDER): a value outside ORDER becomes NaN
Categorical(layer) == IF layer \in Range(ORDER) THEN layer ELSE "NaN"

\* value_counts(dropna=False).reindex(ORDER).fillna(0)
LayerCounts(layers) ==
    [k \in 1..Len(ORDER) |->
        Cardinality({i \in 1..Len(layers) : Categorical(layers[i]) = ORDER[k]})]

RECURSIVE SumSeq(_)
SumSeq(q) == IF q = <<>> THEN 0 ELSE Head(q) + SumSeq(Tail(q))

\* (counts / total * 100.0).round(1), in tenths; NaN when total is 0
Percent(count, total) ==
    IF total = 0 THEN [nan |-> TRUE, tenths |-> 0]
    ELSE [nan |-> FALSE, tenths |-> RoundHalfEven(count * 1000, total)]

ArchLabels ==
    { <<"S", "y", "s", "t", "e", "m">>,
      <<" ", "s", "y", "s", "t", "e", "m", " ">>,
      <<"S", "u", "b", "-", "S", "y", "s", "t", "e", "m">>,
      <<"s", "u", "b", "_", "s", "y", "s", "t", "e", "m">>,
      <<"F", "u", "l", "l", " ", "S", "y", "s", "t", "e", "m">>,
      <<"S", "i", "s", "t", "e", "m", "a">>,
      <<"s", "u", "b", "s", "i", "s", "t", "e", "m", "a">>,
      <<"P", "l", "a", "t", "a", "f", "o", "r", "m", "a">>,
      <<"p", "l", "a", "t", "f", "o", "r", "m", "/", "f", "r", "a", "m", "e", "w", "o", "r", "k">>,
      <<"F", "r", "a", "m", "e", "w", "o", "r", "k", "/", "P", "l", "a", "t", "f", "o", "r", "m">>,
      <<"f", "r", "a", "m", "e", "w", "o", "r", "k">>,
      <<"F", "r", "a", "m", "e", "w", "o", "r", "k", " ">>,
      <<"l", "i", "b", "r", "a", "r", "y">>,
      <<>>,
      <<"s", "y", "s", "t", "e", "m", "s">> }

ArchHints ==
    { <<>>,
      <<"T", "O", "G", "A", "F", " ", "v", "i", "e", "w", "p", "o", "i", "n", "t">>,
      <<"R", "O", "S", " ", "r", "u", "n", "t", "i", "m", "e">>,
      <<"a", " ", "R", "A", ":", " ", "x">>,
      <<"o", "p", "e", "r", "a", " ", "h", "o", "u", "s", "e">>,
      <<"h", "e", "a", "d", "l", "e", "s", "s">> }

ArchLabelCells == {NaNCell, NumCell} \cup {StrCell(t) : t \in ArchLabels}
ArchHintCells  == {NaNCell, NumCell} \cup {StrCell(t) : t \in ArchHints}

ArchInit ==
    \E hasCol \in BOOLEAN, hasHint \in BOOLEAN :
        arch = [pc |-> "start", hasCol |-> hasCol, hasHint |-> hasHint,
                n_rows |-> 0, dropped |-> 0, layers |-> <<>>,
                label |-> NaNCell, hint |-> NaNCell,
                counts |-> <<>>, total |-> 0, out_counts |-> <<>>]

\* the CSV has no application_type column: ValueError
ArchNoColumn ==
    /\ arch.pc = "start"
    /\ ~arch.hasCol
    /\ arch' = [arch EXCEPT !.pc = "error"]
    /\ UNCHANGED <<minerVars, filterVars, dedupVars, excl, tok, dom, mn>>

\* one row of the CSV: dropped when application_type is null, else mapped
ArchRow ==
    /\ arch.pc = "start"
    /\ arch.hasCol
    /\ arch.n_rows < MaxArchRows
    /\ \E label \in ArchLabelCells :
       \E hint \in (IF arch.hasHint THEN ArchHintCells ELSE {StrCell(<<>>)}) :
         arch' = [arch EXCEPT
                    !.n_rows = @ + 1,
                    !.label = label,
                    !.hint = hint,
                    !.dropped = IF label.kind = "nan" THEN @ + 1 ELSE @,
                    !.layers = IF label.kind = "nan" THEN @
                               ELSE Append(@, map_arch_layer(label, StrCell(AsStr(hint))))]
    /\ UNCHANGED <<minerVars, filterVars, dedupVars, excl, tok, dom, mn>>

\* the counts table and its CSV
ArchCounts ==
    /\ arch.pc = "start"
    /\ arch.hasCol
    /\ LET counts == LayerCounts(arch.layers)
           total  == SumSeq(counts)
       IN  arch' = [arch EXCEPT
                      !.pc = "done",
                      !.counts = counts,
                      !.total = total,
                      !.out_counts =
                          [k \in 1..Len(ORDER) |->
                              [Layer |-> ORDER[k], Count |-> counts[k],
                               Percent |-> Percent(counts[k], total)]]]
    /\ UNCHANGED <<minerVars, filterVars, dedupVars, excl, tok, dom, mn>>

AInit == MinerIdle /\ FilterIdle /\ DedupIdle /\ ExclIdle /\ TokIdle
                   /\ DomIdle /\ ArchInit /\ MainIdle
ANext == ArchNoColumn \/ ArchRow \/ ArchCounts
ArchSpec == AInit /\ [][ANext]_vars

----------------------------------------------------------------------------
(* Properties of handle_app_type *)

\* the layer the claim assigns to a normalized label and a lower-cased hint
ClaimedLayer(l, n) ==
    IF l = <<"s", "y", "s", "t", "e", "m">> THEN "System"
    ELSE IF l = <<"s", "u", "b", "s", "y", "s", "t", "e", "m">> THEN "Subsystem"
    ELSE IF l \in { <<"p", "l", "a", "t", "f", "o", "r", "m">>, <<"p", "l", "a", "t", "f", "o", "r", "m", "/", "f", "r", "a", "m", "e", "w", "o", "r", "k">>, <<"f", "r", "a", "m", "e", "w", "o", "r", "k", "/", "p", "l", "a", "t", "f", "o", "r", "m">> }
         THEN "Platform/Infrastructure"
    ELSE IF l = <<"f", "r", "a", "m", "e", "w", "o", "r", "k">> /\ (\E k \in meta_keys : Contains(n, k)) THEN "Meta-Architecture"
    ELSE IF l = <<"f", "r", "a", "m", "e", "w", "o", "r", "k">> THEN "Platform/Infrastructure"
    ELSE "System"

\* C17: map_arch_layer returns, for every label and hint (non-strings
\* included), the label of ORDER the claim names; and the four counts of the
\* output table add up to the number of rows with a non-null application_type.
C17_MapsIntoOrderAndCountsAddUp ==
    /\ (arch.n_rows > 0 /\ arch.label.kind # "nan") =>
          LET layer == arch.layers[Len(arch.layers)]
          IN  /\ layer \in Range(ORDER)
              /\ layer = ClaimedLayer(normalize_label(arch.label),
                                      LowerStr(AsStr(arch.hint)))
    /\ arch.pc = "done" =>
          /\ SumSeq([k \in 1..Len(arch.out_counts) |-> arch.out_counts[k].Count])
                = arch.n_rows - arch.dropped
          /\ arch.total = arch.n_rows - arch.dropped

C17_Witness ==
    /\ arch.pc = "done"
    /\ arch.n_rows = 3
    /\ arch.dropped = 1
    /\ arch.label.kind = "num"
    /\ arch.counts = <<1, 0, 1, 0>>

----------------------------------------------------------------------------
(* api_search.py: main, search_and_save_management, HandleCsv.save_to_csv *)

NumTerms    == 2     \* search terms of main (the script lists 24)
MaxMainResp == 1     \* MAX_RESP ranges over 0..MaxMainResp in a run of main

\* `if not repos: return` of search_and_save_management and `if not
\* self.repos: return` of save_to_csv: the file is opened only past both
CsvCreatedAlways(repos) == TRUE

CsvCreated(repos) == repos # <<>>

\* a call of one of the four functions: fresh locals, nothing requested yet
StartCall(f) ==
    /\ fn' = f
    /\ pc' = "loop"
    /\ page' = 1
    /\ all_repositories' = <<>>
    /\ seen_repos' = {}
    /\ total_commits' = 0
    /\ outcome' = "running"
    /\ retList' = <<>>
    /\ retInt' = 0
    /\ lastStatus' = 200
    /\ reqPage' = 0
    /\ reqParity' = 0
    /\ reissued' = FALSE
    /\ slept' = 0
    /\ lastGap' = -1
    /\ errorSeen' = FALSE
    /\ stream' = <<>>
    /\ overflow' = FALSE
    /\ repoCommits' = 0
    /\ honest' = TRUE
    /\ UNCHANGED <<per_page, max_resp>>

\* the `for term in search_terms` loop moves on to the next term
NextTerm(m) == [m EXCEPT !.pc = "call", !.term = m.term + 1]

MainInit ==
    /\ fn = "search" /\ pc = "done" /\ per_page = 1
    /\ max_resp \in 0..MaxMainResp
    /\ page = 1
    /\ all_repositories = <<>> /\ seen_repos = {} /\ total_commits = 0
    /\ outcome = "value" /\ retList = <<>> /\ retInt = 0 /\ lastStatus = 200
    /\ reqPage = 0 /\ reqParity = 0 /\ reissued = FALSE /\ slept = 0 /\ lastGap = -1
    /\ errorSeen = FALSE /\ stream = <<>> /\ overflow = FALSE
    /\ repoCommits = 0 /\ honest = TRUE
    /\ mn = [pc |-> "call", term |-> 1, calls |-> <<>>, files |-> {},
             empty |-> {}, failed |-> {}, repos |-> <<>>, idx |-> 1, rows |-> 0]

\* main: search_and_save_management(term) starts search_github_repos(term)
MainCall ==
    /\ mn.pc = "call"
    /\ mn.term <= NumTerms
    /\ mn' = [mn EXCEPT !.pc = "search", !.calls = Append(@, mn.term)]
    /\ StartCall("search")
    /\ UNCHANGED <<filterVars, dedupVars, excl, tok, dom, arch>>

\* search_github_repos has returned: no repository, no file, next term;
\* else save_to_csv opens the file and starts on the first repository
MainAfterSearch ==
    /\ mn.pc = "search"
    /\ fn = "search" /\ pc = "done"
    /\ LET m == [mn EXCEPT
                   !.failed = IF errorSeen THEN @ \cup {mn.term} ELSE @,
                   !.empty  = IF retList = <<>> THEN @ \cup {mn.term} ELSE @,
                   !.files  = IF CsvCreated(retList) THEN @ \cup {mn.term} ELSE @,
                   !.repos  = retList, !.idx = 1, !.rows = 0]
       IN  IF retList = <<>>
           THEN /\ mn' = NextTerm(m)
                /\ UNCHANGED minerVars
           ELSE /\ mn' = [m EXCEPT !.pc = "save"]
                /\ StartCall("total")
    /\ UNCHANGED <<filterVars, dedupVars, excl, tok, dom, arch>>

\* total_commits = count_total_commits(...) has returned
MainAfterTotal ==
    /\ mn.pc = "save"
    /\ fn = "total" /\ pc = "done"
    /\ StartCall("c2024")
    /\ UNCHANGED <<filterVars, dedupVars, laterVars>>

\* commits_2024 = count_commits_2024(...) has returned
MainAfterC2024 ==
    /\ mn.pc = "save"
    /\ fn = "c2024" /\ pc = "done"
    /\ StartCall("collab")
    /\ UNCHANGED <<filterVars, dedupVars, laterVars>>

\* get_collaborators_count has returned: writer.writerow, next repository
\* or, after the last one, the next term
MainAfterCollab ==
    /\ mn.pc = "save"
    /\ fn = "collab" /\ pc = "done"
    /\ IF mn.idx < Len(mn.repos)
       THEN /\ mn' = [mn EXCEPT !.idx = @ + 1, !.rows = @ + 1]
            /\ StartCall("total")
       ELSE /\ mn' = NextTerm([mn EXCEPT !.rows = @ + 1])
            /\ StartCall("search")
    /\ UNCHANGED <<filterVars, dedupVars, excl, tok, dom, arch>>

\* the list of terms is exhausted: main logs and returns
MainReturn ==
    /\ mn.pc = "call"
    /\ mn.term > NumTerms
    /\ mn' = [mn EXCEPT !.pc = "done"]
    /\ UNCHANGED <<minerVars, filterVars, dedupVars, excl, tok, dom, arch>>

MInit == MainInit /\ FilterIdle /\ DedupIdle /\ ExclIdle /\ TokIdle
                  /\ DomIdle /\ ArchIdle
MNext ==
    \/ MainCall
    \/ SearchPage
    \/ SearchReturn
    \/ MainAfterSearch
    \/ CountTotalCommitsPage
    \/ MainAfterTotal
    \/ CountCommits2024Page
    \/ MainAfterC2024
    \/ GetCollaboratorsCount
    \/ MainAfterCollab
    \/ MainReturn
MainSpec == MInit /\ [][MNext]_vars

----------------------------------------------------------------------------
(* Properties of main *)

\* the terms whose search has returned
Searched ==
    IF mn.pc = "search" THEN 1..(mn.term - 1)
    ELSE IF mn.pc = "save" THEN 1..mn.term
    ELSE 1..(mn.term - 1)

\* C18: main calls search_and_save_management once per term in list order;
\* a request exception or a non-200 response while a term is searched ends
\* that search with a value (never an exception that would leave main), so
\* the terms after it are searched all the same; and a term whose search
\* yields no repository gets no CSV file.
C18_EveryTermOnceInOrder ==
    mn.pc # "idle" =>
        /\ mn.calls = [i \in 1..Len(mn.calls) |-> i]
        /\ Len(mn.calls) = (IF mn.pc = "call" THEN mn.term - 1
                            ELSE IF mn.pc = "done" THEN NumTerms ELSE mn.term)
        /\ outcome \in {"running", "value"}
        /\ mn.failed \subseteq Searched
        /\ mn.pc = "done" => \A t \in mn.failed : \A u \in (t + 1)..NumTerms :
                                 u \in Range(mn.calls)
        /\ mn.files \cap mn.empty = {}
        /\ mn.files \cup mn.empty = Searched

C18_Witness ==
    /\ mn.pc = "done"
    /\ Len(mn.calls) = NumTerms
    /\ 1 \in mn.failed /\ 1 \in mn.empty /\ 1 \notin mn.files
    /\ 2 \in mn.files /\ 2 \notin mn.failed

====
